---- MODULE Spec2Model ----
(***************************************************************************)
(* furiousapi-core: the sortable-field enum (core/db/fields.py), the       *)
(* cursor pagination engine (core/db/pagination.py) and the derivations    *)
(* from an entity model (core/db/utils.py, core/db/repository.py), the     *)
(* bulk responses (core/responses.py) and the class-based controllers      *)
(* (core/api/controllers).                                                 *)
(*                                                                         *)
(* Text is a sequence of one-character strings.  A base64 token is a       *)
(* sequence of sextets 0..63, with 64 standing for the pad character "=".  *)
(***************************************************************************)
EXTENDS Integers, Sequences, FiniteSets, TLC

(***************************************************************************)
(* Results of operations that may raise.                                   *)
(***************************************************************************)
Ok(v) == [ok |-> TRUE, val |-> v, err |-> ""]
Err(e) == [ok |-> FALSE, val |-> <<>>, err |-> e]

(***************************************************************************)
(* Characters and their byte values (str.encode() / bytes.decode(), UTF-8  *)
(* restricted to the ASCII characters the model uses).                     *)
(***************************************************************************)
DigitChars == <<"0", "1", "2", "3", "4", "5", "6", "7", "8", "9">>

Chars == {"$", "\"", "\\", "a", "b", "u"} \cup {DigitChars[i] : i \in 1..10}

IsDigit(c) == \E i \in 1..10 : DigitChars[i] = c

DigitValue(c) == (CHOOSE i \in 1..10 : DigitChars[i] = c) - 1

Ord(c) ==
    CASE c = "$" -> 36
      [] c = "\"" -> 34
      [] c = "\\" -> 92
      [] c = "a" -> 97
      [] c = "b" -> 98
      [] c = "u" -> 117
      [] OTHER -> 48 + DigitValue(c)

HasChr(b) == \E c \in Chars : Ord(c) = b

\* Any character outside Chars.  The tokens of the model decode to none that
\* JSON gives a meaning to.
OtherChar == "?"

Chr(b) == IF HasChr(b) THEN CHOOSE c \in Chars : Ord(c) = b ELSE OtherChar

StrEncode(text) == [i \in 1..Len(text) |-> Ord(text[i])]

\* bytes.decode(): UTF-8 of one to four bytes per character; a byte sequence
\* that is not well formed raises.
RECURSIVE utf8_decode(_, _)
utf8_decode(bytes, acc) ==
    IF bytes = <<>> THEN Ok(acc)
    ELSE LET b == bytes[1]
             n == Len(bytes)
             Cont(i) == i <= n /\ bytes[i] \in 128..191
         IN  IF b < 128
             THEN utf8_decode(Tail(bytes), Append(acc, Chr(b)))
             ELSE IF b \in 194..223 /\ Cont(2)
             THEN utf8_decode(SubSeq(bytes, 3, n), Append(acc, OtherChar))
             ELSE IF /\ b \in 224..239 /\ Cont(2) /\ Cont(3)
                     /\ (b = 224 => bytes[2] >= 160)
                     /\ (b = 237 => bytes[2] <= 159)
             THEN utf8_decode(SubSeq(bytes, 4, n), Append(acc, OtherChar))
             ELSE IF /\ b \in 240..244 /\ Cont(2) /\ Cont(3) /\ Cont(4)
                     /\ (b = 240 => bytes[2] >= 144)
                     /\ (b = 244 => bytes[2] <= 143)
             THEN utf8_decode(SubSeq(bytes, 5, n), Append(acc, OtherChar))
             ELSE Err("UnicodeDecodeError")

BytesDecode(bytes) == utf8_decode(bytes, <<>>)

(***************************************************************************)
(* base64.b64encode / base64.b64decode over byte sequences.  b64decode is  *)
(* the lenient decoder (validate=False): a pad before the second character *)
(* of a quad is skipped, and input after a completed pad sequence is not   *)
(* read.                                                                   *)
(***************************************************************************)
Pad == 64

RECURSIVE b64encode(_)
b64encode(bytes) ==
    IF Len(bytes) = 0 THEN <<>>
    ELSE IF Len(bytes) = 1 THEN
        <<bytes[1] \div 4, (bytes[1] % 4) * 16, Pad, Pad>>
    ELSE IF Len(bytes) = 2 THEN
        <<bytes[1] \div 4, (bytes[1] % 4) * 16 + bytes[2] \div 16,
          (bytes[2] % 16) * 4, Pad>>
    ELSE
        <<bytes[1] \div 4, (bytes[1] % 4) * 16 + bytes[2] \div 16,
          (bytes[2] % 16) * 4 + bytes[3] \div 64, bytes[3] % 64>>
        \o b64encode(SubSeq(bytes, 4, Len(bytes)))

\* binascii.a2b_base64 reading data with quad_pos characters of the current
\* quad read, leftchar the bits not yet written and pads the pads just seen.
RECURSIVE a2b_base64(_, _, _, _, _)
a2b_base64(data, quad_pos, leftchar, pads, out) ==
    IF data = <<>>
    THEN IF quad_pos # 0 THEN Err("binascii.Error") ELSE Ok(out)
    ELSE LET this_ch == Head(data)
             rest == Tail(data)
         IN  IF this_ch = Pad THEN
                 IF quad_pos >= 2 /\ quad_pos + pads + 1 >= 4 THEN Ok(out)
                 ELSE a2b_base64(rest, quad_pos, leftchar,
                                 IF quad_pos >= 2 THEN pads + 1 ELSE pads, out)
             ELSE IF quad_pos = 0 THEN
                 a2b_base64(rest, 1, this_ch, 0, out)
             ELSE IF quad_pos = 1 THEN
                 a2b_base64(rest, 2, this_ch % 16, 0,
                            Append(out, leftchar * 4 + this_ch \div 16))
             ELSE IF quad_pos = 2 THEN
                 a2b_base64(rest, 3, this_ch % 4, 0,
                            Append(out, leftchar * 16 + this_ch \div 4))
             ELSE
                 a2b_base64(rest, 0, 0, 0, Append(out, leftchar * 64 + this_ch))

b64decode(tok) == a2b_base64(tok, 0, 0, 0, <<>>)

(***************************************************************************)
(* BaseCursorPagination.encode_value / decode_value.                       *)
(***************************************************************************)
encode_value(text) == b64encode(StrEncode(text))

\* A whole quad of pads for a token that needs none.
Padding_whole(n) == 4 - (n % 4)

\* The number of pads in `encoded += (3 - ((len(encoded) + 3) % 4)) * b"="`
Padding(n) == 3 - ((n + 3) % 4)

\* encoded after the padding is added back
AddPadding(tok) == tok \o [i \in 1..Padding(Len(tok)) |-> Pad]

decode_value(tok) ==
    LET encoded == AddPadding(tok)
        raw == b64decode(encoded)
    IN  IF raw.ok THEN BytesDecode(raw.val) ELSE raw

\* A token as it travels without its trailing pads: token.rstrip("=")
RECURSIVE StripPadding(_)
StripPadding(tok) ==
    IF tok # <<>> /\ tok[Len(tok)] = Pad
    THEN StripPadding(SubSeq(tok, 1, Len(tok) - 1))
    ELSE tok

(***************************************************************************)
(* JSON scalars.  A value is an integer or a string; both kinds share one  *)
(* record shape.  __json_dumps__ / __json_loads__ are the JSON functions   *)
(* the pagination class is configured with.  Over the characters of Chars  *)
(* the only JSON texts are unsigned integers and quoted strings.           *)
(***************************************************************************)
IntVal(n) == [t |-> "int", n |-> n, s |-> <<>>]
StrVal(s) == [t |-> "str", n |-> 0, s |-> s]

RECURSIVE Digits(_)
Digits(n) ==
    IF n < 10 THEN <<DigitChars[n + 1]>>
    ELSE Digits(n \div 10) \o <<DigitChars[(n % 10) + 1]>>

RECURSIVE Escape(_)
Escape(s) ==
    IF s = <<>> THEN <<>>
    ELSE (IF Head(s) \in {"\"", "\\"} THEN <<"\\", Head(s)>> ELSE <<Head(s)>>)
         \o Escape(Tail(s))

json_dumps(v) ==
    IF v.t = "int" THEN Digits(v.n) ELSE <<"\"">> \o Escape(v.s) \o <<"\"">>

RECURSIVE Number(_, _)
Number(text, acc) ==
    IF text = <<>> THEN acc
    ELSE Number(Tail(text), acc * 10 + DigitValue(Head(text)))

IsNumber(text) ==
    /\ Len(text) >= 1
    /\ \A i \in 1..Len(text) : IsDigit(text[i])
    /\ Len(text) = 1 \/ text[1] # "0"

\* The string whose opening quote has been read: text is what follows it.
RECURSIVE Unquote(_, _)
Unquote(text, acc) ==
    IF text = <<>> THEN Err("JSONDecodeError")
    ELSE IF Head(text) = "\"" THEN
        IF Tail(text) = <<>> THEN Ok(StrVal(acc)) ELSE Err("JSONDecodeError")
    ELSE IF Head(text) = "\\" THEN
        IF Len(text) >= 2 /\ text[2] \in {"\"", "\\"}
        THEN Unquote(SubSeq(text, 3, Len(text)), Append(acc, text[2]))
        ELSE Err("JSONDecodeError")
    ELSE Unquote(Tail(text), Append(acc, Head(text)))

json_loads(text) ==
    IF IsNumber(text) THEN Ok(IntVal(Number(text, 0)))
    ELSE IF text # <<>> /\ Head(text) = "\"" THEN Unquote(Tail(text), <<>>)
    ELSE Err("JSONDecodeError")

(***************************************************************************)
(* str.join and str.split with the cursor delimiter.                       *)
(***************************************************************************)
delimiter == <<"$", "$">>

RECURSIVE Join(_)
Join(parts) ==
    IF parts = <<>> THEN <<>>
    ELSE IF Len(parts) = 1 THEN parts[1]
    ELSE parts[1] \o delimiter \o Join(Tail(parts))

StartsWithDelimiter(text, i) ==
    /\ i + Len(delimiter) - 1 <= Len(text)
    /\ SubSeq(text, i, i + Len(delimiter) - 1) = delimiter

RECURSIVE Split(_)
Split(text) ==
    IF \E i \in 1..Len(text) : StartsWithDelimiter(text, i)
    THEN LET i == CHOOSE k \in 1..Len(text) :
                      /\ StartsWithDelimiter(text, k)
                      /\ \A j \in 1..(k - 1) : ~StartsWithDelimiter(text, j)
         IN  <<SubSeq(text, 1, i - 1)>>
             \o Split(SubSeq(text, i + Len(delimiter), Len(text)))
    ELSE <<text>>

(***************************************************************************)
(* BaseCursorPagination.encode_cursor / decode_cursor.                     *)
(***************************************************************************)
encode_cursor(cursor) == encode_value(Join(cursor))

\* [json_loads(value) for value in parts]: the first failure is raised.
RECURSIVE LoadAll(_)
LoadAll(parts) ==
    IF parts = <<>> THEN Ok(<<>>)
    ELSE LET first == json_loads(Head(parts))
             more == LoadAll(Tail(parts))
         IN  IF ~first.ok THEN first
             ELSE IF ~more.ok THEN more
             ELSE Ok(<<first.val>> \o more.val)

\* decode_cursor changed to load the decoded text whole, without the split.
decode_cursor_unsplit(tok) ==
    LET text == decode_value(tok)
    IN  IF text.ok THEN LoadAll(<<text.val>>) ELSE text

decode_cursor(tok) ==
    LET text == decode_value(tok)
    IN  IF text.ok THEN LoadAll(Split(text.val)) ELSE text

(***************************************************************************)
(* BaseCursorPagination.render_cursor / parse_cursor.  An item is a record *)
(* of JSON values by field name; field orderings are lists of members.     *)
(***************************************************************************)
render_cursor(item, column_fields) ==
    encode_cursor([i \in 1..Len(column_fields) |-> json_dumps(item[column_fields[i]])])

\* parse_cursor once decode_cursor has returned parsed_cursor
ZipCursor(parsed_cursor, field_orderings) ==
    IF ~parsed_cursor.ok THEN parsed_cursor
    ELSE IF Len(parsed_cursor.val) # Len(field_orderings)
    THEN Err("FuriousError: invalid_cursor.length")
    ELSE Ok([i \in 1..Len(field_orderings) |->
                <<field_orderings[i], parsed_cursor.val[i]>>])

parse_cursor(cursor, field_orderings) ==
    ZipCursor(decode_cursor(cursor), field_orderings)

(***************************************************************************)
(* The sort enum of one entity type (SortableFieldEnum, derived by         *)
(* get_model_sort_fields_enum).  Members are singletons: the direction of  *)
(* a member is one attribute shared by every holder of the member.         *)
(* Entity {id: str, age: int}; member name = member value = field name.    *)
(***************************************************************************)
Members == <<"id", "age">>

Fields == {Members[i] : i \in 1..Len(Members)}

ASCENDING == "asc"
DESCENDING == "desc"
SortingDirection == {ASCENDING, DESCENDING}

\* SortableFieldEnum.__default__ and the class attribute __direction__
DefaultDirection == DESCENDING

\* SortableFieldEnum.__delimiter__
EnumDelimiter == ":"

\* SortableFieldEnum.__examples_count__
ExamplesCount == 3

(***************************************************************************)
(* A sort parameter is the text field + sep + direction, kept in parts.    *)
(* str.partition(":") of it gives (field, sep, direction).                 *)
(***************************************************************************)
Param(f, sep, d) == [field |-> f, sep |-> sep, direction |-> d]

\* An operation on the enum: its result and the members' directions after it.
OkD(v, dirs) == [ok |-> TRUE, val |-> v, err |-> "", dirs |-> dirs]
ErrD(e, dirs) == [ok |-> FALSE, val |-> <<>>, err |-> e, dirs |-> dirs]

\* SortableFieldEnum.__neg__ / __pos__ / __invert__ on member f
Neg(f, dirs) == [dirs EXCEPT ![f] = DESCENDING]

Pos(f, dirs) == [dirs EXCEPT ![f] = ASCENDING]

Invert(f, dirs) == IF dirs[f] = ASCENDING THEN Neg(f, dirs) ELSE Pos(f, dirs)

\* SortableFieldEnum.__str__
MemberStr(f, dirs) == Param(f, EnumDelimiter, dirs[f])

\* __call__ changed to leave the member's direction as it is when the value
\* has no direction part.
EnumCall_keeping(value, dirs) ==
    IF value.field \notin Fields THEN ErrD("ValueError", dirs)
    ELSE IF value.direction # "" /\ value.direction \notin SortingDirection
    THEN ErrD("ValueError", dirs)
    ELSE OkD(value.field,
             IF value.direction # ""
             THEN [dirs EXCEPT ![value.field] = value.direction]
             ELSE dirs)

\* SortableFieldsEnumMeta.__call__(value) with names = None
EnumCall(value, dirs) ==
    IF value.field \notin Fields THEN ErrD("ValueError", dirs)
    ELSE IF value.direction # "" /\ value.direction \notin SortingDirection
    THEN ErrD("ValueError", dirs)
    ELSE OkD(value.field,
             [dirs EXCEPT ![value.field] =
                 IF value.direction # "" THEN value.direction
                 ELSE DefaultDirection])

\* validate changed to put every member back to the default direction when
\* it rejects a value.
validate_resetting(value, dirs) ==
    IF value.field \notin Fields
    THEN ErrD("EnumMemberError", [f \in Fields |-> DefaultDirection])
    ELSE LET called == EnumCall(value, dirs)
         IN  IF called.ok THEN called
             ELSE ErrD(called.err, [f \in Fields |-> DefaultDirection])

\* SortableFieldEnum.validate
validate(value, dirs) ==
    IF value.field \notin Fields THEN ErrD("EnumMemberError", dirs)
    ELSE EnumCall(value, dirs)

\* The sorting query parameter, a list validated item by item; the first
\* item that fails rejects the request.
RECURSIVE ValidateList(_, _, _)
ValidateList(params, acc, dirs) ==
    IF params = <<>> THEN OkD(acc, dirs)
    ELSE LET one == validate(Head(params), dirs)
         IN  IF one.ok
             THEN ValidateList(Tail(params), Append(acc, one.val), one.dirs)
             ELSE one

\* SortableFieldsEnumMeta._generate_examples: -member then +member, each
\* evaluated three times, for the first ExamplesCount members.
RECURSIVE ExamplesFrom(_, _)
ExamplesFrom(i, dirs) ==
    IF i > Len(Members) \/ i > ExamplesCount THEN dirs
    ELSE ExamplesFrom(i + 1, Pos(Members[i], Neg(Members[i], dirs)))

GenerateExamplesDirs(dirs) == ExamplesFrom(1, dirs)

(***************************************************************************)
(* BaseCursorPagination.get_field_orderings.  sorting is None or a list of *)
(* members; id_fields is given in the order the set iterates.              *)
(***************************************************************************)
NoSorting == [none |-> TRUE, items |-> <<>>]
SortingOf(items) == [none |-> FALSE, items |-> items]

InSeq(x, seq) == \E i \in 1..Len(seq) : seq[i] = x

\* getattr(self.sort_enum(id_field), op)() for every missing id field
RECURSIVE MissingFieldOrderings(_, _, _, _, _)
MissingFieldOrderings(ids, items, op, acc, dirs) ==
    IF ids = <<>> THEN OkD(acc, dirs)
    ELSE IF InSeq(Head(ids), items)
    THEN MissingFieldOrderings(Tail(ids), items, op, acc, dirs)
    ELSE LET inst == EnumCall(Param(Head(ids), "", ""), dirs)
         IN  IF ~inst.ok THEN inst
             ELSE MissingFieldOrderings(
                      Tail(ids), items, op, Append(acc, inst.val),
                      IF op = "__pos__" THEN Pos(inst.val, inst.dirs)
                      ELSE Neg(inst.val, inst.dirs))

\* get_field_orderings changed to fall back to the default direction when
\* there is no user sort.
get_field_orderings_defaulting(sorting, ids, dirs) ==
    LET items == sorting.items
        op == IF items # <<>> /\ dirs[items[Len(items)]] = ASCENDING
              THEN "__pos__" ELSE "__neg__"
        missing == MissingFieldOrderings(ids, items, op, <<>>, dirs)
    IN  IF missing.ok THEN OkD(items \o missing.val, missing.dirs)
        ELSE missing

get_field_orderings(sorting, ids, dirs) ==
    IF sorting.none THEN ErrD("AssertionError", dirs)
    ELSE IF sorting.items = <<>> THEN ErrD("IndexError", dirs)
    ELSE LET items == sorting.items
             op == IF dirs[items[Len(items)]] = ASCENDING
                   THEN "__pos__" ELSE "__neg__"
             missing == MissingFieldOrderings(ids, items, op, <<>>, dirs)
         IN  IF missing.ok THEN OkD(items \o missing.val, missing.dirs)
             ELSE missing

\* What a reader of the ordering sees: each member with its direction now.
Directed(ordering, dirs) ==
    [i \in 1..Len(ordering) |-> <<ordering[i], dirs[ordering[i]]>>]

(***************************************************************************)
(* Entity models (pydantic BaseModel classes).  A field has a key and a    *)
(* type_, which is a scalar or another model.  A field name or a dotted    *)
(* name is the sequence of its segments: "inner_model1.inner2" is          *)
(* <<"inner_model1", "inner2">>, and f"{a}.{b}" is <<a>> \o b.             *)
(***************************************************************************)
ModelNames == {"MyModel", "InnerModel", "InnerModel2"}

ModelFields ==
    [MyModel |-> <<[key |-> "inner_model1", type_ |-> "InnerModel"],
                   [key |-> "flat", type_ |-> "int"]>>,
     InnerModel |-> <<[key |-> "inner2", type_ |-> "InnerModel2"],
                      [key |-> "note", type_ |-> "int"]>>,
     InnerModel2 |-> <<[key |-> "field", type_ |-> "int"]>>]

\* issubclass(type_, BaseModel)
IsModel(type_) == type_ \in ModelNames

\* model.__fields__: the keys, and the field of a key
FieldKeys(model) == {ModelFields[model][i].key : i \in 1..Len(ModelFields[model])}

FieldOf(model, key) ==
    ModelFields[model][CHOOSE i \in 1..Len(ModelFields[model]) :
                           ModelFields[model][i].key = key]

\* Config.alias_generator: none, or str.upper
AliasGenerators == {"none", "upper"}

UpperOf ==
    [inner_model1 |-> "INNER_MODEL1", flat |-> "FLAT", inner2 |-> "INNER2",
     note |-> "NOTE", field |-> "FIELD", bogus |-> "BOGUS"]

Upper(segment) == IF segment \in DOMAIN UpperOf THEN UpperOf[segment] ELSE segment

\* alias_generator(name), with the `or (lambda x: x)` of get_model_fields
Alias(gen, name) ==
    IF gen = "upper" THEN [i \in 1..Len(name) |-> Upper(name[i])] ELSE name

(***************************************************************************)
(* Python dicts, in insertion order: a sequence of <<key, value>>.         *)
(***************************************************************************)
DictKeys(d) == {d[i][1] : i \in 1..Len(d)}

DictGet(d, k) == d[CHOOSE i \in 1..Len(d) : d[i][1] = k][2]

\* d.update({k: v}) / d[k] = v
DictSet(d, k, v) ==
    IF k \in DictKeys(d)
    THEN [i \in 1..Len(d) |-> IF d[i][1] = k THEN <<k, v>> ELSE d[i]]
    ELSE Append(d, <<k, v>>)

\* {k: v for k, v in d.items() if k in keep}
DictSelect(d, keep) == SelectSeq(d, LAMBDA kv : kv[1] \in keep)

\* {k: v for k, v in d.items() if k not in drop}
DictDrop(d, drop) == SelectSeq(d, LAMBDA kv : kv[1] \notin drop)

\* An optional set argument (include, exclude): None or a set of names.
NoNames == [none |-> TRUE, names |-> {}]
NamesOf(S) == [none |-> FALSE, names |-> S]

\* `if include:` / `if exclude:`: neither None nor the empty set
Truthy(opt) == ~opt.none /\ opt.names # {}

(***************************************************************************)
(* get_model_fields.                                                       *)
(***************************************************************************)
\* for child_key, child_value in sub_fields.items(): keys.update(...)
RECURSIVE AddSubFields(_, _, _, _)
AddSubFields(keys, key, sub_fields, gen) ==
    IF sub_fields = <<>> THEN keys
    ELSE LET child_key == Head(sub_fields)[1]
             child_value == Head(sub_fields)[2]
         IN  AddSubFields(
                 DictSet(keys, <<key>> \o child_key, <<key>> \o Alias(gen, child_value)),
                 key, Tail(sub_fields), gen)

\* get_model_fields changed to leave out the name of a composite field
\* when it descends into it.
RECURSIVE get_model_fields_leaves(_, _, _, _)
get_model_fields_leaves(model, include, recursive, gen) ==
    LET RECURSIVE Keys(_, _)
        Keys(flds, keys) ==
            IF flds = <<>> THEN keys
            ELSE LET key == Head(flds).key
                     own == DictSet(keys, <<key>>, Alias(gen, <<key>>))
                 IN  IF recursive /\ IsModel(Head(flds).type_)
                     THEN Keys(Tail(flds),
                               AddSubFields(keys, key,
                                   get_model_fields_leaves(Head(flds).type_, include,
                                                           recursive, gen),
                                   gen))
                     ELSE Keys(Tail(flds), own)
        keys == Keys(ModelFields[model], <<>>)
    IN  IF Truthy(include) THEN DictSelect(keys, include.names) ELSE keys

RECURSIVE get_model_fields(_, _, _, _)
get_model_fields(model, include, recursive, gen) ==
    LET RECURSIVE Keys(_, _)
        Keys(flds, keys) ==
            IF flds = <<>> THEN keys
            ELSE LET key == Head(flds).key
                     own == DictSet(keys, <<key>>, Alias(gen, <<key>>))
                 IN  IF recursive /\ IsModel(Head(flds).type_)
                     THEN Keys(Tail(flds),
                               AddSubFields(own, key,
                                   get_model_fields(Head(flds).type_, include,
                                                    recursive, gen),
                                   gen))
                     ELSE Keys(Tail(flds), own)
        keys == Keys(ModelFields[model], <<>>)
    IN  IF Truthy(include) THEN DictSelect(keys, include.names) ELSE keys

(***************************************************************************)
(* get_model_fields_enum / get_model_sort_fields_enum.  Enum(name, fields) *)
(* with a dict makes one member per item, named by the key and valued by   *)
(* the value; an empty dict makes an enum without members.                 *)
(***************************************************************************)
EnumOf(fields) ==
    [i \in 1..Len(fields) |-> [name |-> fields[i][1], value |-> fields[i][2]]]

get_model_fields_enum(model, include, exclude, recursive, gen) ==
    LET fields == get_model_fields(model, include, recursive, gen)
    IN  Ok(EnumOf(IF Truthy(exclude) THEN DictDrop(fields, exclude.names) ELSE fields))

get_model_sort_fields_enum(model, include, exclude, gen) ==
    LET fields == get_model_fields(model, include, FALSE, gen)
    IN  Ok(EnumOf(IF Truthy(exclude) THEN DictDrop(fields, exclude.names) ELSE fields))

MemberNames(enum) == {enum[i].name : i \in 1..Len(enum)}

(***************************************************************************)
(* A derived sort enum: str() of a member and the call of the enum with a  *)
(* value.  f"{self.name}:{self.direction}" formats a SortingDirection,     *)
(* a str-mixin Enum: the interpreter gives its value up to Python 3.10 and *)
(* its class and member name from Python 3.11 on.                          *)
(***************************************************************************)
PythonVersions == {"3.10", "3.11"}

DirectionText(d, python) ==
    IF python = "3.10" THEN d
    ELSE IF d = ASCENDING THEN "SortingDirection.ASCENDING"
    ELSE "SortingDirection.DESCENDING"

\* SortableFieldEnum.__str__ of a member holding direction d
SortMemberStr(member, d, python) ==
    Param(member.name, EnumDelimiter, DirectionText(d, python))

\* SortableFieldsEnumMeta.__call__(value) on a derived enum: the member is
\* looked up by value.
SortEnumCall(enum, value) ==
    IF ~\E i \in 1..Len(enum) : enum[i].value = value.field
    THEN Err("ValueError")
    ELSE IF value.direction # "" /\ value.direction \notin SortingDirection
    THEN Err("ValueError")
    ELSE LET i == CHOOSE k \in 1..Len(enum) :
                      /\ enum[k].value = value.field
                      /\ \A j \in 1..(k - 1) : enum[j].value # value.field
         IN  Ok([name |-> enum[i].name,
                 direction |-> IF value.direction # "" THEN value.direction
                               ELSE DefaultDirection])

(***************************************************************************)
(* create_subset_model.  A projection is a dict whose values are 1 or a    *)
(* nested projection.  The result is the fields handed to create_model:    *)
(* field name to annotation (a type, or "dict" when the annotation is the  *)
(* nested projection itself).                                              *)
(***************************************************************************)
Leaf == [leaf |-> TRUE, sub |-> <<>>]
Nested(projection) == [leaf |-> FALSE, sub |-> projection]

\* model_alias_mapping: alias to FieldAlias(name, field), for the fields of
\* model
model_alias_mapping(model, gen) ==
    [i \in 1..Len(ModelFields[model]) |->
        <<Alias(gen, <<ModelFields[model][i].key>>),
          [name |-> ModelFields[model][i].key, field |-> ModelFields[model][i]]>>]

\* The for loop over curr_projection.items(): the fields it stores in
\* curr_fields and the entries it appends to projection_stack.
RECURSIVE ProjectItems(_, _, _, _, _)
ProjectItems(curr_model, items, alias_mapping, curr_fields, pushed) ==
    IF items = <<>> THEN [fields |-> curr_fields, pushed |-> pushed]
    ELSE LET k == Head(items)[1]
             v == Head(items)[2]
             is_field == Len(k) = 1 /\ k[1] \in FieldKeys(curr_model)
         IN  IF ~v.leaf THEN
                 ProjectItems(curr_model, Tail(items), alias_mapping,
                     DictSet(curr_fields, k,
                             IF is_field THEN FieldOf(curr_model, k[1]).type_ ELSE "dict"),
                     IF is_field /\ IsModel(FieldOf(curr_model, k[1]).type_)
                     THEN Append(pushed, [model |-> FieldOf(curr_model, k[1]).type_,
                                          projection |-> v.sub, root |-> FALSE])
                     ELSE pushed)
             ELSE IF is_field THEN
                 ProjectItems(curr_model, Tail(items), alias_mapping,
                     DictSet(curr_fields, k, FieldOf(curr_model, k[1]).type_), pushed)
             ELSE IF k \in DictKeys(alias_mapping) THEN
                 ProjectItems(curr_model, Tail(items), alias_mapping,
                     DictSet(curr_fields, <<DictGet(alias_mapping, k).name>>,
                             DictGet(alias_mapping, k).field.type_),
                     pushed)
             ELSE ProjectItems(curr_model, Tail(items), alias_mapping, curr_fields, pushed)

\* The while loop over projection_stack.  Only the entry of the model itself
\* holds the dict `fields`; every entry pushed for a nested projection holds
\* a new dict that nothing reads.
RECURSIVE SubsetLoop(_, _, _)
SubsetLoop(projection_stack, alias_mapping, fields) ==
    IF projection_stack = <<>> THEN fields
    ELSE LET top == projection_stack[Len(projection_stack)]
             rest == SubSeq(projection_stack, 1, Len(projection_stack) - 1)
             done == ProjectItems(top.model, top.projection, alias_mapping, <<>>, <<>>)
         IN  SubsetLoop(rest \o done.pushed, alias_mapping,
                        IF top.root THEN done.fields ELSE fields)

create_subset_model(model, projection, gen) ==
    SubsetLoop(<<[model |-> model, projection |-> projection, root |-> TRUE]>>,
               model_alias_mapping(model, gen), <<>>)

\* create_model(f"Temp{model.__name__}", __config__=config, **fields): the
\* outcomes of the call.  An annotation that is a projection dict is not
\* a type: the model class is built with the field as given, or building it
\* raises.
create_model(fields) ==
    IF \E i \in 1..Len(fields) : fields[i][2] = "dict"
    THEN {Ok(fields), Err("RuntimeError")}
    ELSE {Ok(fields)}

\* No derivation has run.
DerivedIdle ==
    [stage |-> "idle", model |-> "MyModel", gen |-> "none", python |-> "3.10",
     include |-> NoNames, exclude |-> NoNames, recursive |-> FALSE,
     sort_include |-> NoNames, sort_exclude |-> NoNames,
     projection |-> <<>>, member |-> 0, d |-> DESCENDING, text |-> Param("", "", ""),
     fields |-> <<>>, fields_enum |-> Ok(<<>>), sort_enum |-> Ok(<<>>),
     subset |-> <<>>, created |-> Ok(<<>>), parsed |-> Ok(<<>>)]

(***************************************************************************)
(* Bulk responses (core/responses.py) and the bulk create route            *)
(* (BulkCreateModelMixin).  An item of a bulk request carries an id and    *)
(* is good, invalid (it is not a value of the model the route's body is    *)
(* annotated with) or conflicting (the repository cannot store it).        *)
(***************************************************************************)
BulkItemStatusEnum == [OK |-> "OK", ERROR |-> "ERROR"]

\* BulkItemSuccess(id=...): status defaults to OK
BulkItemSuccess(id) == [status |-> BulkItemStatusEnum.OK, id |-> id, message |-> ""]

\* BulkItemError(message=...): status defaults to ERROR
BulkItemError(message) ==
    [status |-> BulkItemStatusEnum.ERROR, id |-> 0, message |-> message]

\* An argument that may be left out of a call.
Omitted == [given |-> FALSE, val |-> FALSE]
Given(v) == [given |-> TRUE, val |-> v]

\* BulkResponseModel(items=..., has_errors=...): has_errors is a field of
\* its own with the default False; no validator relates it to items.
BulkResponseModel(items, has_errors) ==
    [items |-> items, has_errors |-> IF has_errors.given THEN has_errors.val ELSE FALSE]

\* The body of the route is annotated List[create_model or __model__]: the
\* request reaches the handler when every item is a value of the model.
BodyIsValid(bulk) == \A i \in 1..Len(bulk) : bulk[i].kind # "invalid"

\* BaseRepository.bulk_create: one result per item, in input order.
RepositoryItems(bulk) ==
    [i \in 1..Len(bulk) |->
        IF bulk[i].kind = "good" THEN BulkItemSuccess(bulk[i].id)
        ELSE BulkItemError("conflict")]

\* No bulk request has been made.
BulkIdle ==
    [stage |-> "idle", input |-> <<>>, status_code |-> 0,
     response |-> BulkResponseModel(<<>>, Omitted)]

(***************************************************************************)
(* Repository classes and their Config (core/db/repository.py).  A Config  *)
(* is a class: its bases, the attributes its own body sets, and its method *)
(* resolution order, along which an attribute is looked up.  Classes are   *)
(* numbered in the order they are created; object, the last class of       *)
(* every order, is left out.                                               *)
(***************************************************************************)
\* An attribute the class body does not set.
Unset == 0

ConfigAttrs == {"default_limit", "filter_model"}

NoAttrs == [a \in ConfigAttrs |-> Unset]

\* get_settings().pagination.default_size
DefaultSize == 10

\* class RepositoryConfig: default_limit has a value, filter_model is only
\* annotated
RepositoryConfig ==
    [bases |-> <<>>, dict |-> [NoAttrs EXCEPT !["default_limit"] = DefaultSize],
     mro |-> <<1>>]

\* Whether class c is in the tail of one of the sequences.
InTail(c, seqs) ==
    \E i \in 1..Len(seqs) : \E j \in 2..Len(seqs[i]) : seqs[i][j] = c

\* Sequences without the empty ones, and without class c.
Without(seq, c) == SelectSeq(seq, LAMBDA x : x # c)
NonEmpty(seqs) == SelectSeq(seqs, LAMBDA s : s # <<>>)

\* The merge of the C3 linearization: the first head that is in no tail
\* comes next; when there is none, no consistent order exists.
RECURSIVE C3Merge(_, _)
C3Merge(seqs, acc) ==
    LET rest == NonEmpty(seqs)
        good == {i \in 1..Len(rest) : ~InTail(rest[i][1], rest)}
    IN  IF rest = <<>> THEN Ok(acc)
        ELSE IF good = {} THEN Err("TypeError")
        ELSE LET first == CHOOSE i \in good : \A j \in good : i <= j
                 head == rest[first][1]
             IN  C3Merge([i \in 1..Len(rest) |-> Without(rest[i], head)],
                         Append(acc, head))

\* type(name, bases, namespace): the classes with the new class added, or
\* the TypeError of an inconsistent method resolution order.
NewClass(configs, bases, dict) ==
    LET order == C3Merge([i \in 1..Len(bases) |-> configs[bases[i]].mro] \o <<bases>>,
                         <<>>)
    IN  IF order.ok
        THEN Ok(Append(configs, [bases |-> bases, dict |-> dict,
                                 mro |-> <<Len(configs) + 1>> \o order.val]))
        ELSE order

\* Bases in the other order: the parent's Config before the class's own.
inherit_config_parent_first(configs, self_config, parent_config) ==
    NewClass(configs,
             IF self_config = parent_config THEN <<self_config>>
             ELSE <<parent_config, self_config>>,
             NoAttrs)

\* inherit_config(self_config, parent_config): a new class named
\* RepositoryConfig whose bases are (self_config, parent_config)
inherit_config(configs, self_config, parent_config) ==
    NewClass(configs,
             IF self_config = parent_config THEN <<self_config>>
             ELSE <<self_config, parent_config>>,
             NoAttrs)

\* getattr(config, a): the value set by the first class of the order that
\* sets a; Unset when none does (AttributeError).
RECURSIVE LookUp(_, _, _)
LookUp(configs, order, a) ==
    IF order = <<>> THEN Unset
    ELSE IF configs[Head(order)].dict[a] # Unset THEN configs[Head(order)].dict[a]
    ELSE LookUp(configs, Tail(order), a)

GetAttr(configs, config, a) == LookUp(configs, configs[config].mro, a)

\* What the body of a repository class says about Config: nothing, or
\* `Config = RepositoryConfig`, or a class statement with the given bases.
NoConfig == [style |-> "none", dict |-> NoAttrs]

\* class BaseRepository(Generic[TEntity], metaclass=RepositoryMeta):
\*     Config = RepositoryConfig
BaseRepository == [generic |-> TRUE, base |-> 0, Config |-> 1, declared |-> NoAttrs]

\* Only RepositoryConfig and BaseRepository exist.
ReposIdle ==
    [configs |-> <<RepositoryConfig>>, classes |-> <<BaseRepository>>, error |-> ""]

\* The class statement `class Config(...)` of the body, run before the
\* metaclass is called: the classes with it added, and its number.
NamespaceConfig(configs, classes, parent, own) ==
    IF own.style = "none" THEN [configs |-> Ok(configs), config |-> 0]
    ELSE IF own.style = "is_default" THEN [configs |-> Ok(configs), config |-> 1]
    ELSE LET made == NewClass(configs,
                         IF own.style = "plain" THEN <<>>
                         ELSE IF own.style = "sub_default" THEN <<1>>
                         ELSE <<classes[parent].Config>>,
                         own.dict)
         IN  [configs |-> made, config |-> IF made.ok THEN Len(made.val) ELSE 0]

\* RepositoryMeta.__new__ for `class name(parent[...])` with the body's
\* Config: the merged Config stored as namespace["Config"], then, for a
\* class of a concrete model, the read of config.filter_model.
RepositoryMetaNew(repos, parent, generic, own) ==
    LET body == NamespaceConfig(repos.configs, repos.classes, parent, own)
        from_base == IF body.configs.ok
                     THEN inherit_config(body.configs.val,
                                         repos.classes[parent].Config, 1)
                     ELSE body.configs
        config == IF from_base.ok /\ body.config # 0
                  THEN inherit_config(from_base.val, body.config, Len(from_base.val))
                  ELSE from_base
    IN  IF ~config.ok THEN [repos EXCEPT !.error = config.err]
        ELSE IF ~repos.classes[parent].generic
             THEN [repos EXCEPT !.error = "KeyError"]
        ELSE IF ~generic /\ GetAttr(config.val, Len(config.val), "filter_model") = Unset
             THEN [repos EXCEPT !.error = "AttributeError"]
        ELSE [configs |-> config.val,
              classes |-> Append(repos.classes,
                                 [generic |-> generic, base |-> parent,
                                  Config |-> Len(config.val),
                                  declared |-> IF own.style = "none" THEN NoAttrs
                                               ELSE own.dict]),
              error |-> ""]

(***************************************************************************)
(* Controller classes and their routers (core/api/controllers/base.py).    *)
(* A router is its list of routes; a route has the name it was registered  *)
(* under and the endpoint it calls.  Routers are numbered in the order     *)
(* they are created, and a class without the attribute api_router has      *)
(* router 0.                                                               *)
(***************************************************************************)
\* The functions decorated with @action, as inspect.getmembers lists them
ActionNames == <<"endpoint1", "endpoint2">>

\* The mixins of ModelController, in the order of cls.mro(), each named by
\* its __method_name__
MixinNames == <<"get", "list", "create", "update", "delete">>

\* cls.__model_name__ or to_snake_case(__model__.__name__), and its plural
\* for the list route
ModelName == "my_model"
ModelNamePlural == "my_models"

\* add_model_method_name: the name a mixin's route is registered under
MixinRouteName(method, use_model_name) ==
    IF ~use_model_name THEN method
    ELSE IF method = "list" THEN ModelNamePlural ELSE ModelName

Route(name, endpoint) == [name |-> name, endpoint |-> endpoint]

\* class CBV: no parents among the controller classes, nothing registered
CBV ==
    [base |-> 0, kind |-> "cbv", router |-> 0, actions |-> {}, enabled |-> {},
     use_model_name |-> FALSE, sentinel |-> FALSE]

\* class ModelController(CBV, GetModelMixin, ...): repository is a Sentinel,
\* so the metaclass returns before it makes a router
ModelController ==
    [base |-> 1, kind |-> "model", router |-> 0, actions |-> {}, enabled |-> {},
     use_model_name |-> FALSE, sentinel |-> TRUE]

\* Only the classes of base.py exist.
ControllersIdle == [classes |-> <<CBV, ModelController>>, routers |-> <<>>]

\* __enabled_routes__ of a class body: left to the bases, or declared.
Inherited == [declared |-> FALSE, val |-> {}]
Declared(names) == [declared |-> TRUE, val |-> names]

\* The routes of the @action members of the class.
ActionRoutes(actions) ==
    LET chosen == SelectSeq(ActionNames, LAMBDA a : a \in actions)
    IN  [i \in 1..Len(chosen) |-> Route(chosen[i], chosen[i])]

\* The routes the mixins' __bootstrap__ add for a class of this kind.
MixinRoutes(kind, use_model_name) ==
    IF kind = "model"
    THEN [i \in 1..Len(MixinNames) |->
              Route(MixinRouteName(MixinNames[i], use_model_name), MixinNames[i])]
    ELSE <<>>

\* cls.api_router.routes = [route for route in routes if route.name in
\* cls.__enabled_routes__], when __enabled_routes__ is not empty
EnabledRoutes(routes, enabled) ==
    IF enabled # {} THEN SelectSeq(routes, LAMBDA r : r.name \in enabled)
    ELSE routes

\* CBVMeta.__new__ for `class <name>(<base>)` whose body holds the given
\* actions, api_router (own: a router made by the body), repository,
\* __enabled_routes__ and __use_model_name__.
CBVMetaNew(rs, base, body) ==
    LET parent == rs.classes[base]
        enabled == IF body.enabled.declared THEN body.enabled.val
                   ELSE parent.enabled
        use_model_name == IF body.use_model_name.given THEN body.use_model_name.val
                          ELSE parent.use_model_name
        actions == parent.actions \cup body.actions
        sentinel == parent.sentinel /\ ~body.repository
        \* the router the body made, else the one the class inherits
        had == IF body.own_router THEN Len(rs.routers) + 1 ELSE parent.router
        with_body == IF body.own_router THEN Append(rs.routers, <<>>) ELSE rs.routers
        router == IF had = 0 THEN Len(with_body) + 1 ELSE had
        routers == IF had = 0 THEN Append(with_body, <<>>) ELSE with_body
        cls == [base |-> base, kind |-> parent.kind, router |-> router,
                actions |-> actions, enabled |-> enabled,
                use_model_name |-> use_model_name, sentinel |-> sentinel]
    IN  IF sentinel
        THEN [classes |-> Append(rs.classes, [cls EXCEPT !.router = had]),
              routers |-> with_body]
        ELSE [classes |-> Append(rs.classes, cls),
              routers |-> [routers EXCEPT ![router] =
                              EnabledRoutes(@ \o ActionRoutes(actions)
                                              \o MixinRoutes(parent.kind, use_model_name),
                                            enabled)]]

(***************************************************************************)
(* BasePagination and PagePagination: limits and offsets.                  *)
(***************************************************************************)
\* PaginationSettings.max_size, the RepositoryConfig.max_limit
MaxSize == 50

\* The values a caller may pass: each carries its Python type.
PyNone == [type |-> "NoneType", val |-> 0]
PyInt(n) == [type |-> "int", val |-> n]
\* True and False are the integers 1 and 0
PyBool(b) == [type |-> "bool", val |-> IF b THEN 1 ELSE 0]
\* the float n.0
PyFloat(n) == [type |-> "float", val |-> n]
\* the string str(n)
PyStr(n) == [type |-> "str", val |-> n]

\* isinstance(value, int): bool is a subclass of int
IsInstanceInt(value) == value.type \in {"int", "bool"}

\* BasePagination.validate_limit
validate_limit(requested_limit) == Ok(requested_limit)

\* BasePagination.get_limit
get_limit(next_) == validate_limit(next_)

\* Negative pages pass.
validate_page_signed(requested_page) ==
    IF requested_page = PyNone THEN Ok(PyInt(0))
    ELSE IF ~IsInstanceInt(requested_page) THEN Err("FuriousError")
    ELSE Ok(requested_page)

\* PagePagination.validate_page
validate_page(requested_page) ==
    IF requested_page = PyNone THEN Ok(PyInt(0))
    ELSE IF ~IsInstanceInt(requested_page) THEN Err("FuriousError")
    ELSE IF requested_page.val < 0 THEN Err("FuriousError")
    ELSE Ok(requested_page)

get_request_page(page) == validate_page(page)

\* PagePagination.get_offset: get_request_page(page) * self._page_size
get_offset(page_size, page) ==
    LET request_page == get_request_page(page)
    IN  IF request_page.ok THEN Ok(PyInt(request_page.val.val * page_size))
        ELSE request_page

\* PagePagination.get_limit(_)
PagePagination_get_limit(page_size, arg) == Ok(PyInt(page_size))

\* No pagination call made yet by a PagePagination(page_size).
PagingIdle == [stage |-> "idle", page_size |-> 1, arg |-> PyNone, out |-> Ok(PyNone)]

(***************************************************************************)
(* Bounds of the model.                                                    *)
(***************************************************************************)
\* list requests in flight together
NumRequests == 2
\* items in one sorting parameter
MaxSortLen == 2

(***************************************************************************)
(* State.                                                                  *)
(*   direction  __direction__ of every member of the sort enum             *)
(*   id_fields  the paginator's id_fields, in the set's iteration order    *)
(*   pc         where each list request stands                             *)
(*   query      the sorting parameter each request carries                 *)
(*   sorting    each request's validated sorting: None or members          *)
(*   result     what get_field_orderings gave each request                 *)
(*   observed   the (field, direction) pairs each request read             *)
(*   codec      one use of the cursor codec: its inputs, token and outputs *)
(*   pager      a client following next from page to page over fixed rows  *)
(*   derived    one derivation from an entity model: its inputs and what   *)
(*              get_model_fields, the enum derivations, the repository     *)
(*              definition or create_subset_model produced                 *)
(*   bulk       one bulk create request: its body and the response         *)
(*   repos      the repository classes defined so far, with their Configs  *)
(*   controllers the controller classes defined so far and their routers   *)
(*   paging     one call on a PagePagination: its argument and outcome     *)
(***************************************************************************)
VARIABLES direction, id_fields, pc, query, sorting, result, observed, codec, pager,
          derived, bulk, repos, controllers, paging

vars ==
    <<direction, id_fields, pc, query, sorting, result, observed, codec, pager,
      derived, bulk, repos, controllers, paging>>

Requests == 1..NumRequests

ParamChoices ==
    {Param(f, "", "") : f \in Fields}
    \cup {Param(f, EnumDelimiter, d) : f \in Fields, d \in SortingDirection}
    \cup {Param("bogus", EnumDelimiter, ASCENDING), Param("age", EnumDelimiter, "up")}

SeqsUpTo(S, n) == UNION {[1..k -> S] : k \in 0..n}

\* No sorting parameter, or a list of up to MaxSortLen items.
Queries == {NoSorting} \cup {SortingOf(q) : q \in SeqsUpTo(ParamChoices, MaxSortLen)}

\* Non-empty sequences without repetition over the enum's fields.
IdFieldChoices ==
    {ids \in SeqsUpTo(Fields, Len(Members)) :
        /\ ids # <<>>
        /\ \A i, j \in 1..Len(ids) : i # j => ids[i] # ids[j]}

NoResult == Ok(<<>>)

\* An entity {id: str, age: int}
Item(id, age) == [id |-> StrVal(id), age |-> IntVal(age)]

NoItem == Item(<<>>, 0)

\* next of a page: None or a cursor token
NoCursor == [none |-> TRUE, token |-> <<>>]
CursorOf(tok) == [none |-> FALSE, token |-> tok]

PagerIdle ==
    [stage |-> "idle", rows |-> {}, limit |-> 0, sort |-> <<>>, next |-> NoCursor,
     seen |-> <<>>, count |-> 0, ordering |-> <<>>, err |-> ""]

CodecIdle ==
    [stage |-> "idle", cursor |-> <<>>, item |-> NoItem, fields |-> <<>>,
     against |-> <<>>, token |-> <<>>, value |-> <<>>, padded |-> <<>>,
     decoded |-> NoResult, out |-> NoResult]

Init ==
    /\ direction = [f \in Fields |-> DefaultDirection]
    /\ paging = PagingIdle
    /\ controllers = ControllersIdle
    /\ repos = ReposIdle
    /\ bulk = BulkIdle
    /\ id_fields \in IdFieldChoices
    /\ pc = [r \in Requests |-> "idle"]
    /\ query = [r \in Requests |-> NoSorting]
    /\ sorting = [r \in Requests |-> NoSorting]
    /\ result = [r \in Requests |-> NoResult]
    /\ observed = [r \in Requests |-> <<>>]
    /\ codec = CodecIdle
    /\ pager = PagerIdle
    /\ derived = DerivedIdle

\* The request's sorting parameter is validated (SortableFieldEnum.validate
\* on every item) and the list handler is entered.
Validate(r) ==
    /\ pc[r] = "idle"
    /\ \E q \in Queries :
        LET v == IF q.none THEN OkD(<<>>, direction)
                 ELSE ValidateList(q.items, <<>>, direction)
        IN  /\ query' = [query EXCEPT ![r] = q]
            /\ direction' = v.dirs
            /\ sorting' = [sorting EXCEPT ![r] =
                              IF q.none \/ ~v.ok THEN NoSorting ELSE SortingOf(v.val)]
            /\ result' = [result EXCEPT ![r] = IF v.ok THEN NoResult ELSE Err(v.err)]
            /\ pc' = [pc EXCEPT ![r] = IF v.ok THEN "validated" ELSE "rejected"]
    /\ UNCHANGED <<id_fields, observed, codec, pager, derived, bulk, repos,
                   controllers, paging>>

\* The request resolves its field ordering.
GetFieldOrderings(r) ==
    /\ pc[r] = "validated"
    /\ LET o == get_field_orderings(sorting[r], id_fields, direction)
       IN  /\ direction' = o.dirs
           /\ result' = [result EXCEPT ![r] = IF o.ok THEN Ok(o.val) ELSE Err(o.err)]
           /\ pc' = [pc EXCEPT ![r] = IF o.ok THEN "resolved" ELSE "failed"]
    /\ UNCHANGED <<id_fields, query, sorting, observed, codec, pager, derived,
                   bulk, repos, controllers, paging>>

\* The request reads field.value and field.direction of the resolved
\* ordering to build its query.
ReadOrdering(r) ==
    /\ pc[r] = "resolved"
    /\ observed' = [observed EXCEPT ![r] = Directed(result[r].val, direction)]
    /\ pc' = [pc EXCEPT ![r] = "read"]
    /\ UNCHANGED <<direction, id_fields, query, sorting, result, codec, pager, derived,
                   bulk, repos, controllers, paging>>

\* The request ends (served, rejected or failed).
Complete(r) ==
    /\ pc[r] \in {"read", "rejected", "failed"}
    /\ pc' = [pc EXCEPT ![r] = "idle"]
    /\ query' = [query EXCEPT ![r] = NoSorting]
    /\ sorting' = [sorting EXCEPT ![r] = NoSorting]
    /\ result' = [result EXCEPT ![r] = NoResult]
    /\ observed' = [observed EXCEPT ![r] = <<>>]
    /\ UNCHANGED <<direction, id_fields, codec, pager, derived, bulk, repos,
                   controllers, paging>>

NoneInFlight == \A r \in Requests : pc[r] = "idle"

\* A controller class is defined for the repository: the examples of its
\* sorting query parameter are generated from the sort enum.  Controllers are
\* defined while no request is being served.
GenerateExamples ==
    /\ NoneInFlight
    /\ direction' = GenerateExamplesDirs(direction)
    /\ UNCHANGED <<id_fields, pc, query, sorting, result, observed, codec, pager, derived,
                   bulk, repos, controllers, paging>>

Next ==
    \/ \E r \in Requests : Validate(r)
    \/ \E r \in Requests : GetFieldOrderings(r)
    \/ \E r \in Requests : ReadOrdering(r)
    \/ \E r \in Requests : Complete(r)
    \/ GenerateExamples

\* Requests served concurrently: their steps interleave.
Spec == Init /\ [][Next]_vars

\* Requests served one at a time: a step of r only while no other request
\* is in flight.
Alone(r) == \A o \in Requests \ {r} : pc[o] = "idle"

SerialValidate(r) == Alone(r) /\ Validate(r)

SerialGetFieldOrderings(r) == Alone(r) /\ GetFieldOrderings(r)

SerialReadOrdering(r) == Alone(r) /\ ReadOrdering(r)

SerialComplete(r) == Alone(r) /\ Complete(r)

SerialNext ==
    \/ \E r \in Requests : SerialValidate(r)
    \/ \E r \in Requests : SerialGetFieldOrderings(r)
    \/ \E r \in Requests : SerialReadOrdering(r)
    \/ \E r \in Requests : SerialComplete(r)
    \/ GenerateExamples

SerialSpec == Init /\ [][SerialNext]_vars

(***************************************************************************)
(* Properties of the resolved field ordering.                              *)
(***************************************************************************)
Count(x, seq) == Cardinality({i \in 1..Len(seq) : seq[i] = x})

Resolved(r) == pc[r] \in {"resolved", "read"}

\* The direction a sort parameter asks for.
RequestedDirection(p) == IF p.direction = "" THEN DefaultDirection ELSE p.direction

RequestedOrdering(items) ==
    [i \in 1..Len(items) |-> <<items[i].field, RequestedDirection(items[i])>>]

RECURSIVE MissingIds(_, _)
MissingIds(ids, items) ==
    IF ids = <<>> THEN <<>>
    ELSE (IF \E i \in 1..Len(items) : items[i].field = Head(ids)
          THEN <<>> ELSE <<Head(ids)>>)
         \o MissingIds(Tail(ids), items)

\* S as requested, then every identifier field not in S with the direction
\* requested for the last element of S.
ExpectedOrdering(items, ids) ==
    LET missing == MissingIds(ids, items)
        last == RequestedDirection(items[Len(items)])
    IN  RequestedOrdering(items) \o [i \in 1..Len(missing) |-> <<missing[i], last>>]

\* C1: the resolved ordering holds every identifier field exactly once and
\* no field twice, whatever the user sort sequence (repeated fields included).
C1_TotalOrder ==
    \A r \in Requests :
        Resolved(r) =>
            /\ \A i \in 1..Len(id_fields) : Count(id_fields[i], result[r].val) = 1
            /\ \A f \in Fields : Count(f, result[r].val) <= 1

C5_SortThenIds ==
    \A r \in Requests :
        (Resolved(r) /\ query[r].items # <<>>)
        => Directed(result[r].val, direction)
               = ExpectedOrdering(query[r].items, id_fields)

\* The ordering a request with sorting parameter q observes when it is the
\* only request served.
AloneObserved(q, ids) ==
    LET v == ValidateList(q.items, <<>>, [f \in Fields |-> DefaultDirection])
        o == get_field_orderings(SortingOf(v.val), ids, v.dirs)
    IN  Directed(o.val, o.dirs)

\* C6: a request served together with another observes the field ordering
\* (fields and directions) it would compute alone.
C6_Isolation ==
    \A r \in Requests :
        pc[r] = "read" => observed[r] = AloneObserved(query[r], id_fields)

\* C7: the derived sort enum is read-only: no step changes the direction of
\* a member.
C7_EnumReadOnly == [][direction' = direction]_vars

\* The last item of a request's sorting parameter.
LastParam(r) == query[r].items[Len(query[r].items)]

\* C13: when the parameter parsed last is a field name without a direction
\* part, the parse yields that field and the field's direction is Descending
\* afterwards, whatever it was before.
C13_DefaultDescending ==
    [][\A r \in Requests :
        (/\ pc[r] = "idle"
         /\ pc'[r] = "validated"
         /\ query'[r].items # <<>>
         /\ LastParam(r)'.direction = "")
        => /\ sorting'[r].items[Len(sorting'[r].items)] = LastParam(r)'.field
           /\ direction'[LastParam(r)'.field] = DESCENDING]_vars

\* A request of [id:asc, id] has been validated: the second item found id
\* ascending and left it descending.
C13_Witness ==
    \E r \in Requests :
        /\ pc[r] = "validated"
        /\ query[r].items = <<Param("id", EnumDelimiter, ASCENDING), Param("id", "", "")>>
        /\ sorting[r].items = <<"id", "id">>
        /\ direction["id"] = DESCENDING

\* A sort parameter naming no member of the enum, or a direction that is
\* neither asc nor desc.
InvalidParam(p) ==
    \/ p.field \notin Fields
    \/ p.direction # "" /\ p.direction \notin SortingDirection

\* The errors of a validator that pydantic reports as a validation error of
\* the request.
ClientErrors == {"EnumMemberError", "ValueError"}

C16_Deterministic ==
    \A r1, r2 \in Requests :
        (/\ pc[r1] = "read"
         /\ pc[r2] = "read"
         /\ query[r1] = query[r2])
        => observed[r1] = observed[r2]

(***************************************************************************)
(* The cursor codec on its own: a tuple of strings is encoded and decoded, *)
(* or the cursor of an item is rendered and parsed back.                   *)
(***************************************************************************)
\* characters of one cursor string
MaxTextLen == 2
\* strings in one cursor
MaxCursorLen == 2

CodecChars == {"\"", "$", "1"}

Texts == SeqsUpTo(CodecChars, MaxTextLen)

CursorTuples == SeqsUpTo(Texts, MaxCursorLen) \ {<<>>}

ItemIds == Texts \cup {<<"u", "1">>}

ItemAges == {0, 7, 30}

FieldOrderings == SeqsUpTo(Fields, MaxSortLen) \ {<<>>}

\* characters of a cursor token a client made up
MaxTokenLen == 3

\* The characters J, M, Q, / and = of made-up tokens: among them are tokens
\* that are not base64 ("M"), not UTF-8 ("//"), not JSON ("JJ", the text "$")
\* and well-formed cursors ("MQ", the text "1").
ForgedSextets == {9, 12, 16, 63, Pad}

ForgedTokens == SeqsUpTo(ForgedSextets, MaxTokenLen)

CodecInit ==
    /\ direction = [f \in Fields |-> DefaultDirection]
    /\ paging = PagingIdle
    /\ controllers = ControllersIdle
    /\ repos = ReposIdle
    /\ bulk = BulkIdle
    /\ id_fields = <<"id">>
    /\ pc = [r \in Requests |-> "idle"]
    /\ query = [r \in Requests |-> NoSorting]
    /\ sorting = [r \in Requests |-> NoSorting]
    /\ result = [r \in Requests |-> NoResult]
    /\ observed = [r \in Requests |-> <<>>]
    /\ pager = PagerIdle
    /\ derived = DerivedIdle
    /\ \/ \E xs \in CursorTuples :
            codec = [CodecIdle EXCEPT !.stage = "cursor", !.cursor = xs]
       \/ \E id \in ItemIds, age \in ItemAges, fo \in FieldOrderings :
            codec = [CodecIdle EXCEPT !.stage = "item", !.item = Item(id, age),
                                      !.fields = fo]
       \/ \E tok \in ForgedTokens, fo \in FieldOrderings :
            codec = [CodecIdle EXCEPT !.stage = "token", !.token = tok,
                                      !.fields = fo]

EncodeCursor ==
    /\ codec.stage = "cursor"
    /\ codec' = [codec EXCEPT !.stage = "encoded",
                              !.token = encode_cursor(codec.cursor)]
    /\ UNCHANGED <<direction, id_fields, pc, query, sorting, result, observed, pager,
                 derived, bulk, repos, controllers, paging>>

DecodeCursor ==
    /\ codec.stage = "encoded"
    /\ codec' = [codec EXCEPT !.stage = "decoded",
                              !.out = decode_cursor(codec.token)]
    /\ UNCHANGED <<direction, id_fields, pc, query, sorting, result, observed, pager,
                 derived, bulk, repos, controllers, paging>>

RenderCursor ==
    /\ codec.stage = "item"
    /\ codec' = [codec EXCEPT !.stage = "rendered",
                              !.token = render_cursor(codec.item, codec.fields)]
    /\ UNCHANGED <<direction, id_fields, pc, query, sorting, result, observed, pager,
                 derived, bulk, repos, controllers, paging>>

\* parse_cursor; decoded keeps its local parsed_cursor.
ParseCursor ==
    /\ codec.stage = "rendered"
    /\ codec' = [codec EXCEPT !.stage = "parsed",
                              !.decoded = decode_cursor(codec.token),
                              !.out = parse_cursor(codec.token, codec.fields)]
    /\ UNCHANGED <<direction, id_fields, pc, query, sorting, result, observed, pager,
                 derived, bulk, repos, controllers, paging>>

\* A later request presents the rendered cursor while its own field ordering
\* is another one (the client changed the sorting parameter): parse_cursor
\* with that ordering.
ParseStaleCursor ==
    /\ codec.stage = "rendered"
    /\ \E fo \in FieldOrderings :
        /\ fo # codec.fields
        /\ codec' = [codec EXCEPT !.stage = "stale",
                                  !.against = fo,
                                  !.decoded = decode_cursor(codec.token),
                                  !.out = parse_cursor(codec.token, fo)]
    /\ UNCHANGED <<direction, id_fields, pc, query, sorting, result, observed, pager,
                 derived, bulk, repos, controllers, paging>>

\* A request presents a token that no page handed out: parse_cursor.
ParseForgedCursor ==
    /\ codec.stage = "token"
    /\ codec' = [codec EXCEPT !.stage = "forged",
                              !.decoded = decode_cursor(codec.token),
                              !.out = parse_cursor(codec.token, codec.fields)]
    /\ UNCHANGED <<direction, id_fields, pc, query, sorting, result, observed, pager,
                 derived, bulk, repos, controllers, paging>>

\* decode_value of an encoded cursor that lost its trailing pads on the way;
\* decoded keeps decode_value of the token as encode_value made it.
DecodeUnpadded ==
    /\ codec.stage = "encoded"
    /\ LET value == StripPadding(codec.token)
       IN  codec' = [codec EXCEPT !.stage = "unpadded",
                                  !.value = value,
                                  !.padded = AddPadding(value),
                                  !.decoded = decode_value(codec.token),
                                  !.out = decode_value(value)]
    /\ UNCHANGED <<direction, id_fields, pc, query, sorting, result, observed, pager,
                 derived, bulk, repos, controllers, paging>>

\* decode_value of a token that no page handed out.
DecodeForgedValue ==
    /\ codec.stage = "token"
    /\ codec' = [codec EXCEPT !.stage = "value",
                              !.value = codec.token,
                              !.padded = AddPadding(codec.token),
                              !.out = decode_value(codec.token)]
    /\ UNCHANGED <<direction, id_fields, pc, query, sorting, result, observed, pager,
                 derived, bulk, repos, controllers, paging>>

CodecNext ==
    \/ EncodeCursor
    \/ DecodeCursor
    \/ RenderCursor
    \/ ParseCursor
    \/ ParseStaleCursor
    \/ ParseForgedCursor
    \/ DecodeUnpadded
    \/ DecodeForgedValue

CodecSpec == CodecInit /\ [][CodecNext]_vars

HasDelimiter(text) == \E i \in 1..Len(text) : StartsWithDelimiter(text, i)

IsJsonText(text) == json_loads(text).ok

\* C8 as stated: a non-empty tuple of strings without the delimiter decodes,
\* after encoding, to the same strings in the same order.
C8_RoundTrip ==
    (/\ codec.stage = "decoded"
     /\ \A i \in 1..Len(codec.cursor) : ~HasDelimiter(codec.cursor[i]))
    => /\ codec.out.ok
       /\ Len(codec.out.val) = Len(codec.cursor)
       /\ \A i \in 1..Len(codec.cursor) : codec.out.val[i] = StrVal(codec.cursor[i])

\* C8 as amended: a non-empty tuple of JSON texts without the delimiter
\* decodes, after encoding, to the values the texts denote, one per text and
\* in the same order.
C8_JsonRoundTrip ==
    (/\ codec.stage = "decoded"
     /\ \A i \in 1..Len(codec.cursor) :
            IsJsonText(codec.cursor[i]) /\ ~HasDelimiter(codec.cursor[i]))
    => /\ codec.out.ok
       /\ Len(codec.out.val) = Len(codec.cursor)
       /\ \A i \in 1..Len(codec.cursor) :
              codec.out.val[i] = json_loads(codec.cursor[i]).val

C8_Witness ==
    /\ codec.stage = "decoded"
    /\ Len(codec.cursor) = 2
    /\ codec.cursor[1] = <<"1", "1">>
    /\ codec.cursor[2] = <<"\"", "\"">>
    /\ codec.out.ok
    /\ codec.out.val = <<IntVal(11), StrVal(<<>>)>>

\* C9: parsing the cursor rendered from an item gives, position by
\* position, each ordering field with the item's value for it.
C9_RenderParse ==
    codec.stage = "parsed"
    => /\ codec.out.ok
       /\ codec.out.val = [i \in 1..Len(codec.fields) |->
                              <<codec.fields[i], codec.item[codec.fields[i]]>>]

\* C10: a value holding the delimiter's characters survives the join and
\* split: the decoded cursor has one value per ordering field, each unchanged.
C10_DelimiterInValue ==
    (/\ codec.stage = "parsed"
     /\ \E i \in 1..Len(codec.fields) : HasDelimiter(codec.item[codec.fields[i]].s))
    => /\ codec.decoded.ok
       /\ Len(codec.decoded.val) = Len(codec.fields)
       /\ \A i \in 1..Len(codec.fields) :
              codec.decoded.val[i] = codec.item[codec.fields[i]]

InvalidCursorLength == "FuriousError: invalid_cursor.length"

\* C11: a cursor rendered for an ordering of N fields and parsed against an
\* ordering of M # N fields fails with the invalid-cursor error and gives no
\* (field, value) pairs; a parse succeeds only when the decoded values are as
\* many as the ordering's fields.
C11_LengthInvariant ==
    codec.stage \in {"parsed", "stale"}
    => LET ordering == IF codec.stage = "stale" THEN codec.against ELSE codec.fields
       IN  /\ (codec.stage = "stale" /\ Len(codec.against) # Len(codec.fields))
               => /\ ~codec.out.ok
                  /\ codec.out.err = InvalidCursorLength
                  /\ codec.out.val = <<>>
           /\ codec.out.ok
               => /\ codec.decoded.ok
                  /\ Len(codec.decoded.val) = Len(ordering)

\* C12: parsing a token that cannot be decoded (not base64, not UTF-8 after
\* decoding, or with a segment that is not JSON) fails with the same typed
\* invalid-cursor error as a length mismatch, never with a low-level error.
C12_UndecodableTyped ==
    (codec.stage = "forged" /\ ~codec.decoded.ok)
    => /\ ~codec.out.ok
       /\ codec.out.err = InvalidCursorLength

(***************************************************************************)
(* A client pages through a fixed set of rows: every request carries the   *)
(* same sorting parameter and limit, and the next of the previous page.    *)
(* The repository's part of a list request (the filter of get_filter, the  *)
(* sort and the limit, next = None after a short page) follows the         *)
(* pagination protocol of the specification.                               *)
(***************************************************************************)
\* rows of the table
MaxRows == 3
\* largest limit a request asks for
MaxLimit == 2

PageIds == {<<"u", "1">>, <<"u", "2">>, <<"$", "$">>}

PageAges == {30, 31}

AllRows == {Item(id, age) : id \in PageIds, age \in PageAges}

IdTuple(row, ids) == [i \in 1..Len(ids) |-> row[ids[i]]]

RowSets(ids) ==
    {rs \in SUBSET AllRows :
        /\ Cardinality(rs) <= MaxRows
        /\ \A a, b \in rs : a # b => IdTuple(a, ids) # IdTuple(b, ids)}

ValidParams == {p \in ParamChoices : validate(p, [f \in Fields |-> DefaultDirection]).ok}

PageSorts == SeqsUpTo(ValidParams, MaxSortLen) \ {<<>>}

RECURSIVE TextLess(_, _)
TextLess(a, b) ==
    IF b = <<>> THEN FALSE
    ELSE IF a = <<>> THEN TRUE
    ELSE IF Ord(Head(a)) # Ord(Head(b)) THEN Ord(Head(a)) < Ord(Head(b))
    ELSE TextLess(Tail(a), Tail(b))

\* v < w for two values of one column
ValueLess(v, w) ==
    IF v.t = "int" /\ w.t = "int" THEN v.n < w.n
    ELSE IF v.t = "str" /\ w.t = "str" THEN TextLess(v.s, w.s)
    ELSE FALSE

\* value v comes after value c in a column sorted in direction d
ComesAfter(v, c, d) == IF d = ASCENDING THEN ValueLess(c, v) ELSE ValueLess(v, c)

\* get_filter: the row is strictly after the cursor, lexicographically over
\* the ordering; cursor is the parsed cursor, ordering the directed ordering.
AfterCursor(row, cursor, ordering) ==
    \E k \in 1..Len(ordering) :
        /\ \A j \in 1..(k - 1) : row[ordering[j][1]] = cursor[j][2]
        /\ ComesAfter(row[ordering[k][1]], cursor[k][2], ordering[k][2])

\* row a sorts strictly before row b
Precedes(a, b, ordering) ==
    \E k \in 1..Len(ordering) :
        /\ \A j \in 1..(k - 1) : a[ordering[j][1]] = b[ordering[j][1]]
        /\ ComesAfter(b[ordering[k][1]], a[ordering[k][1]], ordering[k][2])

InOrder(seq, ordering) ==
    \A i, j \in 1..Len(seq) : i < j => ~Precedes(seq[j], seq[i], ordering)

\* the ways the backend may return the rows of rs sorted by the ordering
SortedSeqs(rs, ordering) ==
    {seq \in [1..Cardinality(rs) -> rs] :
        /\ \A i, j \in 1..Cardinality(rs) : i # j => seq[i] # seq[j]
        /\ InOrder(seq, ordering)}

FirstN(seq, n) == SubSeq(seq, 1, IF Len(seq) < n THEN Len(seq) ELSE n)

PageInit ==
    /\ direction = [f \in Fields |-> DefaultDirection]
    /\ paging = PagingIdle
    /\ controllers = ControllersIdle
    /\ repos = ReposIdle
    /\ bulk = BulkIdle
    /\ id_fields \in IdFieldChoices
    /\ pc = [r \in Requests |-> "idle"]
    /\ query = [r \in Requests |-> NoSorting]
    /\ sorting = [r \in Requests |-> NoSorting]
    /\ result = [r \in Requests |-> NoResult]
    /\ observed = [r \in Requests |-> <<>>]
    /\ codec = CodecIdle
    /\ derived = DerivedIdle
    /\ \E rs \in RowSets(id_fields), lim \in 1..MaxLimit, srt \in PageSorts :
           pager = [PagerIdle EXCEPT !.stage = "paging", !.rows = rs,
                                     !.limit = lim, !.sort = srt]

\* One list request of the client, served alone: the sorting parameter is
\* validated, the ordering resolved, the cursor parsed, the page read and
\* the next cursor rendered from its last row.
FetchPage ==
    /\ pager.stage = "paging"
    /\ LET v == ValidateList(pager.sort, <<>>, direction)
           o == get_field_orderings(SortingOf(v.val), id_fields, v.dirs)
           ordering == Directed(o.val, o.dirs)
           cursor == IF pager.next.none THEN Ok(<<>>)
                     ELSE parse_cursor(pager.next.token, o.val)
           matching == IF pager.next.none THEN pager.rows
                       ELSE {row \in pager.rows : AfterCursor(row, cursor.val, ordering)}
       IN  /\ direction' = o.dirs
           /\ IF ~v.ok \/ ~o.ok \/ ~cursor.ok
              THEN pager' = [pager EXCEPT
                                !.stage = "error",
                                !.err = IF ~v.ok THEN v.err
                                        ELSE IF ~o.ok THEN o.err ELSE cursor.err]
              ELSE \E sorted \in SortedSeqs(matching, ordering) :
                      LET page == FirstN(sorted, pager.limit)
                          next == IF Len(page) < pager.limit THEN NoCursor
                                  ELSE CursorOf(render_cursor(page[Len(page)], o.val))
                      IN  pager' = [pager EXCEPT
                                       !.stage = IF next.none THEN "done" ELSE "paging",
                                       !.next = next,
                                       !.seen = pager.seen \o page,
                                       !.count = Len(page),
                                       !.ordering = ordering]
    /\ UNCHANGED <<id_fields, pc, query, sorting, result, observed, codec,
                 derived, bulk, repos, controllers, paging>>

PageNext == FetchPage

PageSpec == PageInit /\ [][PageNext]_vars

PagingStopped == pager.stage \in {"done", "error"}

\* C2: following the cursors returns every row exactly once and in the
\* resolved order, also when rows tie in the user sort fields.
C2_EveryRowOnce ==
    /\ \A i, j \in 1..Len(pager.seen) : i # j => pager.seen[i] # pager.seen[j]
    /\ InOrder(pager.seen, pager.ordering)
    /\ PagingStopped =>
           /\ pager.stage = "done"
           /\ {pager.seen[i] : i \in 1..Len(pager.seen)} = pager.rows

\* C3: paging ends at a page shorter than limit whose next is None, and
\* next is None whenever a page is shorter than limit.
C3_ReachesLastPage ==
    /\ (pager.stage = "paging" /\ pager.seen # <<>>) =>
           (pager.count = pager.limit /\ ~pager.next.none)
    /\ PagingStopped =>
           /\ pager.stage = "done"
           /\ pager.next.none
           /\ pager.count < pager.limit

(***************************************************************************)
(* Derivations from an entity model: the field names, the fields enum and  *)
(* the sort enum (alone, and as the definition of a repository class with  *)
(* its Config), the string form of a member of the sort enum parsed back,  *)
(* and a subset model for a projection.                                    *)
(***************************************************************************)
\* names in one include or exclude set
MaxFilter == 2

SubsetsUpTo(S, n) == {T \in SUBSET S : Cardinality(T) <= n}

\* Names given in include and exclude of a derivation
FilterNames ==
    {<<"flat">>, <<"inner_model1">>, <<"inner2">>, <<"inner_model1", "inner2">>,
     <<"inner_model1", "note">>, <<"bogus">>}

Filters == {NoNames} \cup {NamesOf(T) : T \in SubsetsUpTo(FilterNames, MaxFilter)}

\* Names given in the four sets of a repository's Config
ConfigNames == {<<"flat">>, <<"inner_model1">>, <<"bogus">>}

ConfigFilters == {NoNames} \cup {NamesOf(T) : T \in SubsetsUpTo(ConfigNames, MaxFilter)}

Projections ==
    {<<<<<<"flat">>, Leaf>>>>,
     <<<<<<"inner_model1">>, Leaf>>>>,
     <<<<<<"FLAT">>, Leaf>>>>,
     <<<<<<"bogus">>, Leaf>>>>,
     <<<<<<"bogus">>, Nested(<<<<<<"flat">>, Leaf>>>>)>>>>,
     <<<<<<"inner_model1">>, Nested(<<<<<<"inner2">>, Leaf>>>>)>>>>,
     <<<<<<"INNER_MODEL1">>, Nested(<<<<<<"inner2">>, Leaf>>>>)>>>>,
     <<<<<<"inner_model1">>, Nested(<<<<<<"inner_model1", "inner2">>, Leaf>>>>)>>>>,
     <<<<<<"inner_model1">>,
        Nested(<<<<<<"inner2">>, Nested(<<<<<<"field">>, Leaf>>>>)>>,
                 <<<<"note">>, Leaf>>>>)>>>>,
     <<<<<<"flat">>, Leaf>>,
       <<<<"inner_model1">>, Nested(<<<<<<"note">>, Leaf>>>>)>>>>}

DeriveInit ==
    /\ direction = [f \in Fields |-> DefaultDirection]
    /\ paging = PagingIdle
    /\ controllers = ControllersIdle
    /\ repos = ReposIdle
    /\ bulk = BulkIdle
    /\ id_fields = <<"id">>
    /\ pc = [r \in Requests |-> "idle"]
    /\ query = [r \in Requests |-> NoSorting]
    /\ sorting = [r \in Requests |-> NoSorting]
    /\ result = [r \in Requests |-> NoResult]
    /\ observed = [r \in Requests |-> <<>>]
    /\ codec = CodecIdle
    /\ pager = PagerIdle
    /\ \/ \E m \in ModelNames, rec \in BOOLEAN, g \in AliasGenerators,
             inc \in Filters :
            derived = [DerivedIdle EXCEPT !.stage = "fields", !.model = m,
                                          !.recursive = rec, !.gen = g,
                                          !.include = inc]
       \/ \E rec \in BOOLEAN, g \in AliasGenerators, inc \in Filters,
             exc \in Filters :
            derived = [DerivedIdle EXCEPT !.stage = "enum", !.recursive = rec,
                                          !.gen = g, !.include = inc,
                                          !.exclude = exc]
       \/ \E g \in AliasGenerators, py \in PythonVersions,
             inc \in ConfigFilters, exc \in ConfigFilters,
             sinc \in ConfigFilters, sexc \in ConfigFilters :
            derived = [DerivedIdle EXCEPT !.stage = "repository", !.gen = g,
                                          !.python = py,
                                          !.include = inc, !.exclude = exc,
                                          !.sort_include = sinc,
                                          !.sort_exclude = sexc]
       \/ \E g \in AliasGenerators, pr \in Projections :
            derived = [DerivedIdle EXCEPT !.stage = "projection", !.gen = g,
                                          !.projection = pr]

GetModelFields ==
    /\ derived.stage = "fields"
    /\ derived' = [derived EXCEPT
           !.stage = "fields_done",
           !.fields = get_model_fields(derived.model, derived.include,
                                       derived.recursive, derived.gen)]
    /\ UNCHANGED <<direction, id_fields, pc, query, sorting, result, observed,
                   codec, pager, bulk, repos, controllers, paging>>

GetModelFieldsEnum ==
    /\ derived.stage = "enum"
    /\ derived' = [derived EXCEPT
           !.stage = "enum_done",
           !.fields_enum = get_model_fields_enum(derived.model, derived.include,
                               derived.exclude, derived.recursive, derived.gen)]
    /\ UNCHANGED <<direction, id_fields, pc, query, sorting, result, observed,
                   codec, pager, bulk, repos, controllers, paging>>

\* RepositoryMeta.__new__ for a repository of MyModel: __sort__ and
\* __fields__ are derived with the four sets of the effective Config.
DefineRepository ==
    /\ derived.stage = "repository"
    /\ LET sort == get_model_sort_fields_enum(derived.model, derived.sort_include,
                                              derived.sort_exclude, derived.gen)
           fields == get_model_fields_enum(derived.model, derived.include,
                                           derived.exclude, FALSE, derived.gen)
       IN  derived' = [derived EXCEPT
               !.stage = IF sort.ok /\ fields.ok THEN "defined" ELSE "failed",
               !.sort_enum = sort,
               !.fields_enum = fields]
    /\ UNCHANGED <<direction, id_fields, pc, query, sorting, result, observed,
                   codec, pager, bulk, repos, controllers, paging>>

\* str() of a member of the repository's sort enum, the member holding
\* direction d.
StrMember ==
    /\ derived.stage = "defined"
    /\ \E i \in 1..Len(derived.sort_enum.val), d \in SortingDirection :
        derived' = [derived EXCEPT
            !.stage = "str",
            !.member = i,
            !.d = d,
            !.text = SortMemberStr(derived.sort_enum.val[i], d, derived.python)]
    /\ UNCHANGED <<direction, id_fields, pc, query, sorting, result, observed,
                   codec, pager, bulk, repos, controllers, paging>>

\* The enum is called with that string.
ParseMember ==
    /\ derived.stage = "str"
    /\ derived' = [derived EXCEPT
           !.stage = "parsed",
           !.parsed = SortEnumCall(derived.sort_enum.val, derived.text)]
    /\ UNCHANGED <<direction, id_fields, pc, query, sorting, result, observed,
                   codec, pager, bulk, repos, controllers, paging>>

CreateSubsetModel ==
    /\ derived.stage = "projection"
    /\ LET fields == create_subset_model(derived.model, derived.projection,
                                         derived.gen)
       IN  \E outcome \in create_model(fields) :
               derived' = [derived EXCEPT !.stage = "subset",
                                          !.subset = fields,
                                          !.created = outcome]
    /\ UNCHANGED <<direction, id_fields, pc, query, sorting, result, observed,
                   codec, pager, bulk, repos, controllers, paging>>

DeriveNext ==
    \/ GetModelFields
    \/ GetModelFieldsEnum
    \/ DefineRepository
    \/ StrMember
    \/ ParseMember
    \/ CreateSubsetModel

DeriveSpec == DeriveInit /\ [][DeriveNext]_vars

\* The member of the sort enum whose string was taken.
StrOfMember == derived.sort_enum.val[derived.member]

\* C14: for every member of a sort enum and every direction d, the string
\* form of the member is "<name>:<d>" and calling the enum with that string
\* gives the same member with direction d.
C14_StrRoundTrip ==
    derived.stage = "parsed"
    => /\ derived.text = Param(StrOfMember.name, EnumDelimiter, derived.d)
       /\ derived.parsed.ok
       /\ derived.parsed.val = [name |-> StrOfMember.name, direction |-> derived.d]

\* Every dotted name of a model: each field, and under each composite field
\* every dotted name of its model.
RECURSIVE DottedNames(_)
DottedNames(model) ==
    UNION {{<<f>>} \cup (IF IsModel(FieldOf(model, f).type_)
                         THEN {<<f>> \o n : n \in DottedNames(FieldOf(model, f).type_)}
                         ELSE {})
           : f \in FieldKeys(model)}

\* C17: without an include set, get_model_fields returns exactly the declared
\* field names when it is not recursive, and exactly the dotted names of
\* every depth when it is; each name once, and mapped to itself when there
\* is no alias generator.
C17_FieldDerivation ==
    (derived.stage = "fields_done" /\ ~Truthy(derived.include))
    => /\ DictKeys(derived.fields)
              = IF derived.recursive THEN DottedNames(derived.model)
                ELSE {<<f>> : f \in FieldKeys(derived.model)}
       /\ Cardinality(DictKeys(derived.fields)) = Len(derived.fields)
       /\ derived.gen = "none"
              => \A i \in 1..Len(derived.fields) :
                     derived.fields[i][2] = derived.fields[i][1]

\* The recursive derivation of MyModel has given its four names of the test
\* and the name of the second field of the inner model.
C17_Witness ==
    /\ derived.stage = "fields_done"
    /\ derived.model = "MyModel"
    /\ derived.recursive
    /\ derived.gen = "none"
    /\ derived.include = NoNames
    /\ derived.fields =
           <<<<<<"inner_model1">>, <<"inner_model1">>>>,
             <<<<"inner_model1", "inner2">>, <<"inner_model1", "inner2">>>>,
             <<<<"inner_model1", "inner2", "field">>,
               <<"inner_model1", "inner2", "field">>>>,
             <<<<"inner_model1", "note">>, <<"inner_model1", "note">>>>,
             <<<<"flat">>, <<"flat">>>>>>

\* The names a derivation of the model's enum should keep: all derived
\* names, those of include when one is given, none of exclude.
FilteredNames(model, include, exclude, recursive) ==
    LET all == IF recursive THEN DottedNames(model)
               ELSE {<<f>> : f \in FieldKeys(model)}
    IN  (IF Truthy(include) THEN all \cap include.names ELSE all) \ exclude.names

\* C18: the members of the derived fields enum are the derived names (the
\* dotted ones too when recursive) that are in include when one is given
\* and not in exclude.
C18_PostFilter ==
    derived.stage = "enum_done"
    => /\ derived.fields_enum.ok
       /\ MemberNames(derived.fields_enum.val)
              = FilteredNames(derived.model, derived.include, derived.exclude,
                              derived.recursive)

\* C19: a repository is never defined with an empty fields enum or an empty
\* sort enum: when the filters leave no name the definition fails with
\* ConfigurationError.
C19_NoEmptyEnum ==
    /\ derived.stage = "defined"
           => /\ derived.sort_enum.val # <<>>
              /\ derived.fields_enum.val # <<>>
    /\ derived.stage = "failed"
           => \/ derived.sort_enum.err = "ConfigurationError"
              \/ derived.fields_enum.err = "ConfigurationError"

\* The sub-fields a field annotated with this type has in a schema.
SubFieldsOf(annotation) == IF IsModel(annotation) THEN FieldKeys(annotation) ELSE {}

\* C20: a composite field that the projection maps to a nested mapping has,
\* in the subset model, only the sub-fields the nested mapping names.
C20_NestedSubset ==
    derived.stage = "subset"
    => \A i \in 1..Len(derived.projection) :
           LET k == derived.projection[i][1]
               v == derived.projection[i][2]
           IN  (/\ ~v.leaf
                /\ Len(k) = 1
                /\ k[1] \in FieldKeys(derived.model)
                /\ IsModel(FieldOf(derived.model, k[1]).type_))
               => /\ k \in DictKeys(derived.subset)
                  /\ \A sub \in SubFieldsOf(DictGet(derived.subset, k)) :
                         <<sub>> \in DictKeys(v.sub)

(***************************************************************************)
(* Claims about create_subset_model.                                       *)
(***************************************************************************)
\* A key of the projection that is neither a field of the model nor a
\* declared alias.
UnknownKey(model, gen, k) ==
    /\ ~(Len(k) = 1 /\ k[1] \in FieldKeys(model))
    /\ k \notin DictKeys(model_alias_mapping(model, gen))

\* C21: a projection key that is neither a field of the model nor a declared
\* alias adds no field to the derived schema and raises no error, whether
\* its value is 1 or a nested mapping.
C21_UnknownSkipped ==
    derived.stage = "subset"
    => /\ derived.created.ok
       /\ \A i \in 1..Len(derived.projection) :
              UnknownKey(derived.model, derived.gen, derived.projection[i][1])
              => derived.projection[i][1] \notin DictKeys(derived.subset)

\* The field of the model that a projection key names: by its name, or by
\* a declared alias.  <<>> when it names none.
NamedField(model, gen, k) ==
    IF Len(k) = 1 /\ k[1] \in FieldKeys(model) THEN <<k[1]>>
    ELSE IF k \in DictKeys(model_alias_mapping(model, gen))
         THEN <<DictGet(model_alias_mapping(model, gen), k).name>>
         ELSE <<>>

\* C22: every field of the model that the projection names, with 1 or with
\* a nested mapping, by name or by alias, is in the subset model under its
\* field name, and no field of the model that the projection does not name
\* is in it.
C22_SubsetExact ==
    derived.stage = "subset"
    => /\ (\A i \in 1..Len(derived.projection) :
               NamedField(derived.model, derived.gen,
                          derived.projection[i][1]) # <<>>)
          => derived.created.ok
       /\ \A i \in 1..Len(derived.projection) :
              LET f == NamedField(derived.model, derived.gen, derived.projection[i][1])
              IN  f # <<>> => f \in DictKeys(derived.subset)
       /\ \A key \in FieldKeys(derived.model) :
              <<key>> \in DictKeys(derived.subset)
              => \E i \in 1..Len(derived.projection) :
                     NamedField(derived.model, derived.gen,
                                derived.projection[i][1]) = <<key>>

(***************************************************************************)
(* One bulk create request: POST /bulk with a list of items.               *)
(***************************************************************************)
\* items in one bulk request
MaxBulk == 3

BulkItemIds == 1..2

BulkItemKinds == {"good", "invalid", "conflict"}

BulkInputs == SeqsUpTo([id : BulkItemIds, kind : BulkItemKinds], MaxBulk)

BulkInit ==
    /\ direction = [f \in Fields |-> DefaultDirection]
    /\ paging = PagingIdle
    /\ controllers = ControllersIdle
    /\ repos = ReposIdle
    /\ id_fields = <<"id">>
    /\ pc = [r \in Requests |-> "idle"]
    /\ query = [r \in Requests |-> NoSorting]
    /\ sorting = [r \in Requests |-> NoSorting]
    /\ result = [r \in Requests |-> NoResult]
    /\ observed = [r \in Requests |-> <<>>]
    /\ codec = CodecIdle
    /\ pager = PagerIdle
    /\ derived = DerivedIdle
    /\ \E b \in BulkInputs : bulk = [BulkIdle EXCEPT !.stage = "request", !.input = b]

\* An item of the body is not a value of the model: the request is answered
\* with 422 and bulk_create is not entered.
RejectBody ==
    /\ bulk.stage = "request"
    /\ ~BodyIsValid(bulk.input)
    /\ bulk' = [bulk EXCEPT !.stage = "rejected", !.status_code = 422]
    /\ UNCHANGED <<direction, id_fields, pc, query, sorting, result, observed,
                   codec, pager, derived, repos, controllers, paging>>

\* BulkCreateModelMixin.bulk_create: the handler returns what the
\* repository's bulk_create returns, a BulkResponseModel built with or
\* without the argument has_errors.
BulkCreate ==
    /\ bulk.stage = "request"
    /\ BodyIsValid(bulk.input)
    /\ LET items == RepositoryItems(bulk.input)
           any == \E i \in 1..Len(items) : items[i].status = BulkItemStatusEnum.ERROR
       IN  \E has_errors \in {Omitted, Given(any)} :
               bulk' = [bulk EXCEPT !.stage = "returned", !.status_code = 200,
                                    !.response = BulkResponseModel(items, has_errors)]
    /\ UNCHANGED <<direction, id_fields, pc, query, sorting, result, observed,
                   codec, pager, derived, repos, controllers, paging>>

BulkNext ==
    \/ RejectBody
    \/ BulkCreate

BulkSpec == BulkInit /\ [][BulkNext]_vars

\* C23: in every bulk response, has_errors is true exactly when some item of
\* the response is tagged ERROR.
C23_HasErrors ==
    bulk.stage = "returned"
    => (bulk.response.has_errors
        <=> \E i \in 1..Len(bulk.response.items) :
                bulk.response.items[i].status = BulkItemStatusEnum.ERROR)

\* C24: a bulk operation over n items gives n results in input order: an
\* item that fails is tagged ERROR with a message, every other item is tagged
\* OK with its id, and no failure aborts the other items.
C24_PerItemResults ==
    bulk.stage \in {"returned", "rejected"}
    => /\ Len(bulk.response.items) = Len(bulk.input)
       /\ \A i \in 1..Len(bulk.input) :
              IF bulk.input[i].kind = "good"
              THEN /\ bulk.response.items[i].status = BulkItemStatusEnum.OK
                   /\ bulk.response.items[i].id = bulk.input[i].id
              ELSE /\ bulk.response.items[i].status = BulkItemStatusEnum.ERROR
                   /\ bulk.response.items[i].message # ""

(***************************************************************************)
(* Definitions of repository classes, one after the other, each a          *)
(* subclass of a class defined before it.                                  *)
(***************************************************************************)
\* repository classes defined besides BaseRepository
MaxRepositories == 2

ConfigStyles == {"plain", "sub_default", "sub_parent"}

\* The Config a class body can hold; the values its class statement sets
\* are the number n of the repository class, which no other class sets.
OwnConfigs(n) ==
    {NoConfig, [style |-> "is_default", dict |-> NoAttrs]}
    \cup {[style |-> s, dict |-> [a \in ConfigAttrs |-> IF a \in set THEN n ELSE Unset]] :
            s \in ConfigStyles, set \in SUBSET ConfigAttrs}

ReposInit ==
    /\ direction = [f \in Fields |-> DefaultDirection]
    /\ paging = PagingIdle
    /\ controllers = ControllersIdle
    /\ bulk = BulkIdle
    /\ id_fields = <<"id">>
    /\ pc = [r \in Requests |-> "idle"]
    /\ query = [r \in Requests |-> NoSorting]
    /\ sorting = [r \in Requests |-> NoSorting]
    /\ result = [r \in Requests |-> NoResult]
    /\ observed = [r \in Requests |-> <<>>]
    /\ codec = CodecIdle
    /\ pager = PagerIdle
    /\ derived = DerivedIdle
    /\ repos = ReposIdle

\* A class statement `class <name>(<parent>[...])` is executed.
DefineRepositoryClass ==
    /\ Len(repos.classes) <= MaxRepositories
    /\ \E parent \in 1..Len(repos.classes), generic \in BOOLEAN,
          own \in OwnConfigs(Len(repos.classes) + 1) :
           repos' = RepositoryMetaNew(repos, parent, generic, own)
    /\ UNCHANGED <<direction, id_fields, pc, query, sorting, result, observed,
                   codec, pager, derived, bulk, controllers, paging>>

ReposNext == DefineRepositoryClass

ReposSpec == ReposInit /\ [][ReposNext]_vars

\* The value the claim gives attribute a in the effective Config of
\* repository class r: the class's own, else the nearest base's, else the
\* default of RepositoryConfig.
RECURSIVE MergedValue(_, _, _)
MergedValue(classes, r, a) ==
    IF r = 0 THEN RepositoryConfig.dict[a]
    ELSE IF classes[r].declared[a] # Unset THEN classes[r].declared[a]
    ELSE MergedValue(classes, classes[r].base, a)

\* The attributes of the effective Config of repository class r.
EffectiveConfig(rs, r) ==
    [a \in ConfigAttrs |-> GetAttr(rs.configs, rs.classes[r].Config, a)]

\* C25: after a class definition every repository class's effective Config
\* holds, for every attribute, the value of its own Config when that sets
\* it, else that of the nearest base class's Config, else the default; and
\* the definition leaves the effective Config of every class defined before
\* as it was.
C25_ConfigMerge ==
    [][/\ \A r \in 1..Len(repos'.classes) : \A a \in ConfigAttrs :
              EffectiveConfig(repos', r)[a] = MergedValue(repos'.classes, r, a)
       /\ \A r \in 1..Len(repos.classes) :
              /\ r <= Len(repos'.classes)
              /\ repos'.classes[r] = repos.classes[r]
              /\ EffectiveConfig(repos', r) = EffectiveConfig(repos, r)]_vars

\* A class two levels below BaseRepository whose own Config extends
\* RepositoryConfig and sets one attribute, the other being set by its base.
C25_Witness ==
    /\ Len(repos.classes) = 3
    /\ repos.classes[3].base = 2
    /\ repos.classes[2].declared["default_limit"] = 2
    /\ repos.classes[3].declared = [NoAttrs EXCEPT !["filter_model"] = 3]
    /\ repos.configs[repos.configs[repos.classes[3].Config].bases[1]].bases = <<1>>
    /\ EffectiveConfig(repos, 3) = [default_limit |-> 2, filter_model |-> 3]

(***************************************************************************)
(* Definitions of controller classes, one after the other, each a          *)
(* subclass of CBV, of ModelController or of a controller defined before.  *)
(***************************************************************************)
\* controller classes defined besides CBV and ModelController
MaxControllers == 2

\* What the body of a controller class can hold, for a base of each kind.
ControllerBodies(parent) ==
    IF parent.kind = "cbv"
    THEN [actions : {{}, {"endpoint1"}, {"endpoint1", "endpoint2"}},
          own_router : BOOLEAN, repository : {FALSE},
          enabled : {Inherited, Declared({}), Declared({"endpoint1"})},
          use_model_name : {Omitted}]
    ELSE [actions : {{}},
          own_router : BOOLEAN,
          repository : IF parent.sentinel THEN BOOLEAN ELSE {FALSE},
          enabled : {Inherited, Declared({}), Declared({"get"})},
          use_model_name : {Omitted, Given(TRUE)}]

ControllersInit ==
    /\ direction = [f \in Fields |-> DefaultDirection]
    /\ paging = PagingIdle
    /\ bulk = BulkIdle
    /\ repos = ReposIdle
    /\ id_fields = <<"id">>
    /\ pc = [r \in Requests |-> "idle"]
    /\ query = [r \in Requests |-> NoSorting]
    /\ sorting = [r \in Requests |-> NoSorting]
    /\ result = [r \in Requests |-> NoResult]
    /\ observed = [r \in Requests |-> <<>>]
    /\ codec = CodecIdle
    /\ pager = PagerIdle
    /\ derived = DerivedIdle
    /\ controllers = ControllersIdle

\* A class statement `class <name>(<base>)` is executed.
DefineController ==
    /\ Len(controllers.classes) < MaxControllers + 2
    /\ \E base \in 1..Len(controllers.classes) :
           \E body \in ControllerBodies(controllers.classes[base]) :
               controllers' = CBVMetaNew(controllers, base, body)
    /\ UNCHANGED <<direction, id_fields, pc, query, sorting, result, observed,
                   codec, pager, derived, bulk, repos, paging>>

ControllersNext == DefineController

ControllersSpec == ControllersInit /\ [][ControllersNext]_vars

\* The routes of the router of controller class c.
RoutesOf(cs, c) ==
    IF cs.classes[c].router = 0 THEN <<>> ELSE cs.routers[cs.classes[c].router]

\* C26: after every class definition each controller's router holds each
\* route name at most once, and the definition adds no route to the router
\* of a controller defined before.
C26_RoutesOnce ==
    [][/\ \A c \in 1..Len(controllers'.classes) :
              \A i, j \in 1..Len(RoutesOf(controllers', c)) :
                  RoutesOf(controllers', c)[i].name = RoutesOf(controllers', c)[j].name
                  => i = j
       /\ \A c \in 1..Len(controllers.classes) :
              Len(RoutesOf(controllers', c)) <= Len(RoutesOf(controllers, c))]_vars

\* The routes the definition of controller class c registered: those of its
\* actions, then those of its mixins.
RegisteredRoutes(cs, c) ==
    ActionRoutes(cs.classes[c].actions)
        \o MixinRoutes(cs.classes[c].kind, cs.classes[c].use_model_name)

SetOf(seq) == {seq[i] : i \in 1..Len(seq)}

\* Controller class c went through the registration of CBVMeta.__new__.
IsRegistered(cs, c) == c > 2 /\ ~cs.classes[c].sentinel

\* C27: the router of a controller with a non-empty __enabled_routes__ holds
\* exactly the registered routes whose name is in __enabled_routes__, and
\* that of a controller with an empty one holds all registered routes.
C27_EnabledRoutes ==
    \A c \in 1..Len(controllers.classes) :
        IsRegistered(controllers, c)
        => SetOf(RoutesOf(controllers, c))
           = IF controllers.classes[c].enabled # {}
             THEN {r \in SetOf(RegisteredRoutes(controllers, c)) :
                       r.name \in controllers.classes[c].enabled}
             ELSE SetOf(RegisteredRoutes(controllers, c))

(***************************************************************************)
(* Claims about decode_value.                                              *)
(***************************************************************************)
\* The pads at the end of a padded token.
RECURSIVE TrailingPads(_)
TrailingPads(tok) ==
    IF tok # <<>> /\ tok[Len(tok)] = Pad
    THEN 1 + TrailingPads(SubSeq(tok, 1, Len(tok) - 1))
    ELSE 0

\* C28: decode_value appends (4 - n mod 4) mod 4 pads to a token of length
\* n, which makes its length a multiple of 4, and a token that lost its
\* trailing pads decodes to the same text as the token with them.
C28_PaddingRestored ==
    /\ codec.stage \in {"unpadded", "value"}
       => /\ Len(codec.padded) - Len(codec.value) = (4 - (Len(codec.value) % 4)) % 4
          /\ SubSeq(codec.padded, 1, Len(codec.value)) = codec.value
          /\ \A i \in Len(codec.value) + 1..Len(codec.padded) : codec.padded[i] = Pad
          /\ Len(codec.padded) % 4 = 0
    /\ codec.stage = "unpadded"
       => /\ codec.out = codec.decoded
          /\ codec.padded = codec.token

\* An encoded cursor whose token ends with two pads, decoded without them.
C28_Witness ==
    /\ codec.stage = "unpadded"
    /\ TrailingPads(codec.token) = 2
    /\ Len(codec.value) = Len(codec.token) - 2
    /\ codec.out.ok
    /\ codec.out.val # <<>>

(***************************************************************************)
(* Limits and offsets: one call on a PagePagination(page_size).            *)
(***************************************************************************)
\* largest page_size
MaxPageSize == 3
\* pages requested run from -MaxPage to MaxPage
MaxPage == 3
\* limits requested run from -MaxOver to MaxSize + MaxOver
MaxOver == 2

NotIntegers ==
    {PyFloat(n) : n \in -MaxPage..MaxPage} \cup {PyStr(n) : n \in -MaxPage..MaxPage}

Limits ==
    {PyNone, PyBool(TRUE), PyBool(FALSE)}
    \cup {PyInt(n) : n \in -MaxOver..MaxSize + MaxOver}
    \cup NotIntegers

Pages ==
    {PyNone, PyBool(TRUE), PyBool(FALSE)}
    \cup {PyInt(n) : n \in -MaxPage..MaxPage}
    \cup NotIntegers

PagingInit ==
    /\ direction = [f \in Fields |-> DefaultDirection]
    /\ bulk = BulkIdle
    /\ repos = ReposIdle
    /\ controllers = ControllersIdle
    /\ id_fields = <<"id">>
    /\ pc = [r \in Requests |-> "idle"]
    /\ query = [r \in Requests |-> NoSorting]
    /\ sorting = [r \in Requests |-> NoSorting]
    /\ result = [r \in Requests |-> NoResult]
    /\ observed = [r \in Requests |-> <<>>]
    /\ codec = CodecIdle
    /\ pager = PagerIdle
    /\ derived = DerivedIdle
    /\ \E page_size \in 1..MaxPageSize : paging = [PagingIdle EXCEPT !.page_size = page_size]

ValidateLimit ==
    /\ paging.stage = "idle"
    /\ \E requested_limit \in Limits :
           paging' = [paging EXCEPT !.stage = "validate_limit",
                                    !.arg = requested_limit,
                                    !.out = validate_limit(requested_limit)]
    /\ UNCHANGED <<direction, id_fields, pc, query, sorting, result, observed, codec,
                   pager, derived, bulk, repos, controllers>>

GetLimit ==
    /\ paging.stage = "idle"
    /\ \E next_ \in Limits :
           paging' = [paging EXCEPT !.stage = "get_limit",
                                    !.arg = next_,
                                    !.out = get_limit(next_)]
    /\ UNCHANGED <<direction, id_fields, pc, query, sorting, result, observed, codec,
                   pager, derived, bulk, repos, controllers>>

GetOffset ==
    /\ paging.stage = "idle"
    /\ \E page \in Pages :
           paging' = [paging EXCEPT !.stage = "get_offset",
                                    !.arg = page,
                                    !.out = get_offset(paging.page_size, page)]
    /\ UNCHANGED <<direction, id_fields, pc, query, sorting, result, observed, codec,
                   pager, derived, bulk, repos, controllers>>

PageGetLimit ==
    /\ paging.stage = "idle"
    /\ \E arg \in Limits :
           paging' = [paging EXCEPT !.stage = "page_get_limit",
                                    !.arg = arg,
                                    !.out = PagePagination_get_limit(paging.page_size, arg)]
    /\ UNCHANGED <<direction, id_fields, pc, query, sorting, result, observed, codec,
                   pager, derived, bulk, repos, controllers>>

PagingNext ==
    \/ ValidateLimit
    \/ GetLimit
    \/ GetOffset
    \/ PageGetLimit

PagingSpec == PagingInit /\ [][PagingNext]_vars

\* A value that is no integer at all.
NotAnInteger(value) == value.type \in {"float", "str"}

\* C29: validate_limit, and get_limit through it, raises FuriousError for a
\* limit that is invalid (negative or no integer) or above the maximum
\* limit, and returns any other limit as the limit to use.
C29_LimitValidated ==
    paging.stage \in {"validate_limit", "get_limit"}
    => /\ (\/ NotAnInteger(paging.arg)
           \/ paging.arg.type = "int" /\ paging.arg.val < 0
           \/ paging.arg.type = "int" /\ paging.arg.val > MaxSize)
          => paging.out = Err("FuriousError")
       /\ (paging.arg.type = "int" /\ paging.arg.val \in 1..MaxSize)
          => paging.out = Ok(paging.arg)

====
